---- MODULE Spec2Model ----
(***************************************************************************)
(* Model of the juno-miner mining engine (class Miner): the RandomX pool   *)
(* (cache, dataset, per-thread VMs, NUMA tables), the worker threads and   *)
(* the public operations the control thread calls.                         *)
(***************************************************************************)
EXTENDS Integers, Sequences, FiniteSets, TLC

\* ---------------------------------------------------------------- bounds
MaxThreads == 2      \* largest thread count of a mining session
MaxPoolThreads == 3  \* largest thread count of the pool when no session runs
NumNodes == 2        \* NUMA nodes reported when NUMA is available
CpusPerNode == 2     \* CPUs of each NUMA node
MaxVm == 4           \* VM handles the allocator can hand out before it fails
MaxHashes == 2       \* hashes of one session: no worker starts another once reached
NonceSpace == 2      \* nonce values (the 256-bit nonce wraps at NonceSpace)
WordMod == 2         \* values of one hash word
MaxEdits == 2        \* fields of a node reply that differ from a well-formed one
LenSlack == 1        \* hash strings are up to LenSlack characters short or long
MaxSize == 34        \* largest size byte of the compact bits examined
MaxSetBytes == 2     \* non-zero bytes of a hash or target that is compared
MaxInitThreads == 3  \* thread counts of a dataset initialisation
MaxHardware == 3     \* hardware_concurrency() values, from 0 (unknown)
MaxItems == 5        \* randomx_dataset_item_count() values
MaxNonceSteps == 2   \* hashes of a worker whose nonce bytes are followed
MaxHeight == 6400    \* block heights, past the third epoch boundary
HeightBits == 14     \* bits of a block height
MaxBlocks == 3       \* blocks counted as mined before a submission

\* ------------------------------------------------------------- constants
SeedBytes == 32      \* required seed_hash.size()
HashHexLen == 64     \* characters of a hash in a block template
HashBytes == 32      \* bytes of a decoded hash, of a nonce and of a target
EpochBlocks == 2048  \* RANDOMX_SEEDHASH_EPOCH_BLOCKS
EpochLag == 96       \* RANDOMX_SEEDHASH_EPOCH_LAG
NonceBytes == 32     \* std::vector<uint8_t> nonce(32, 0)
NonceOffset == 108   \* bytes of header_base before the nonce
HeaderBytes == 140   \* header_base.resize(140)
MaxRpcFailures == 2  \* const int max_rpc_failures = 2

Null == "null"
NoVm == 0
Seeds == {"A", "B"}
BadSeed == "short"
SeedSize(s) == IF s \in Seeds THEN SeedBytes ELSE SeedBytes - 1

Handles == 1..MaxVm
Workers == 0..(MaxThreads - 1)
Nodes == 0..(NumNodes - 1)

VARIABLES
    num_threads, fast_mode, numa_available,
    current_seed_hash, legacy_cache, dataset, legacy_vms, numa_nodes,
    thread_to_node, thread_to_cpu,
    vm_heap,
    mining, found, hash_count,
    solution_nonce, solution_hash, solution_header, solution_template,
    threads, block_template,
    pc, w_vm, w_key, w_nonce, w_hash,
    ctl, ret,
    main,
    hashed,
    call

poolVars == <<num_threads, current_seed_hash, legacy_cache, dataset, legacy_vms,
              numa_nodes, thread_to_node, thread_to_cpu, vm_heap>>
cfgVars == <<fast_mode, numa_available>>
flagVars == <<mining, found, hash_count>>
slotVars == <<solution_nonce, solution_hash, solution_header, solution_template>>
workerVars == <<pc, w_vm, w_key, w_nonce, w_hash>>
minerVars == <<poolVars, cfgVars, flagVars, slotVars, threads, block_template,
               workerVars, ctl, ret, hashed>>
vars == <<minerVars, main, call>>
\* hashed counts the randomx_calculate_hash calls that returned since the last
\* start_mining; it is an observer of the workers, not a field of the Miner

\* ---------------------------------------------------------------- helpers
Min(S) == CHOOSE x \in S : \A y \in S : x <= y

RECURSIVE Pick(_, _)
\* the k smallest members of S, ascending: the handles the allocator returns
Pick(S, k) == IF k = 0 \/ S = {} THEN <<>>
              ELSE LET m == Min(S) IN <<m>> \o Pick(S \ {m}, k - 1)

\* std::vector::resize: keeps the leading elements, pads with nullptr
Resize(v, n) == [i \in 1..n |-> IF i <= Len(v) THEN v[i] ELSE NoVm]

\* a creation loop over the slots of v that succeeded f times: slots 1..f get
\* the fresh handles, slot f+1 (if any) got nullptr, the rest was not reached
Fill(v, f, fresh) ==
    [i \in 1..Len(v) |-> IF i <= f THEN fresh[i]
                         ELSE IF i = f + 1 THEN NoVm ELSE v[i]]

RangeOf(s) == {s[i] : i \in 1..Len(s)}
SubSeqFrom(s, off, n) == [i \in 1..n |-> s[off + i]]

\* ------------------------------------------------------------ NUMA tables
\* the detected topology: nodes of 1, 2, .. CpusPerNode CPUs, in turn
CpuCount(node) == 1 + (node % CpusPerNode)
CpuIds(node) == [i \in 1..CpuCount(node) |-> node * CpusPerNode + (i - 1)]

\* round-robin distribution of n threads (thread t is index t+1)
DistributeNodes(n) == [i \in 1..n |-> (i - 1) % NumNodes]
\* one counter for all nodes in place of node_thread_count[node]
NodeThreadCountShared(t2n, i) == i - 1
\* node_thread_count[node] when thread i - 1 is placed
NodeThreadCount(t2n, i) == Cardinality({j \in 1..(i - 1) : t2n[j] = t2n[i]})
DistributeCpus(n) ==
    LET t2n == DistributeNodes(n)
    IN [i \in 1..n |->
           LET cpu_ids == CpuIds(t2n[i])
           IN  cpu_ids[(NodeThreadCount(t2n, i) % Len(cpu_ids)) + 1]]

\* ------------------------------------------------------------ pool record
Pool == [num_threads |-> num_threads, current_seed_hash |-> current_seed_hash,
         legacy_cache |-> legacy_cache, dataset |-> dataset,
         legacy_vms |-> legacy_vms, numa_nodes |-> numa_nodes,
         thread_to_node |-> thread_to_node, thread_to_cpu |-> thread_to_cpu,
         vm_heap |-> vm_heap]

InstallPool(P) ==
    /\ num_threads' = P.num_threads
    /\ current_seed_hash' = P.current_seed_hash
    /\ legacy_cache' = P.legacy_cache
    /\ dataset' = P.dataset
    /\ legacy_vms' = P.legacy_vms
    /\ numa_nodes' = P.numa_nodes
    /\ thread_to_node' = P.thread_to_node
    /\ thread_to_cpu' = P.thread_to_cpu
    /\ vm_heap' = P.vm_heap

\* a worker thread that has been spawned and has not returned
Alive(w) == pc[w] \notin {"none", "exited"}
\* VM pointers held by running workers
Held == {w_vm[w] : w \in {x \in Workers : Alive(x)}} \ {NoVm}
\* handles randomx_create_vm can return
Available(heap) == {h \in Handles : heap[h] = "free"} \ Held

\* the seed a VM hashes with: a cache VM keeps the key it was created with,
\* a dataset VM reads the shared dataset
VmKey(heap, ds, h) ==
    IF h = NoVm THEN Null
    ELSE IF heap[h] = "free" THEN Null
    ELSE IF heap[h] = "ds" THEN ds ELSE heap[h]

ThreadsPerNode(P, node) ==
    Cardinality({t \in 1..P.num_threads : P.thread_to_node[t] = node})
NodeOffset(P, node) ==
    Cardinality({t \in 1..P.num_threads : P.thread_to_node[t] < node})

NoFail == [at |-> "none", idx |-> 0]

\* failure points of initialize for pool P: which allocation returns nullptr
InitFails(P) ==
    LET nAvail == Cardinality(Available(P.vm_heap))
        numaPath == numa_available /\ ~fast_mode
    IN  {[at |-> "cache", idx |-> 0]}
        \cup (IF fast_mode THEN {[at |-> "dataset", idx |-> 0]} ELSE {})
        \cup (IF numaPath
              THEN {[at |-> "node_cache", idx |-> k] :
                        k \in {n \in Nodes : /\ ThreadsPerNode(P, n) > 0
                                          /\ NodeOffset(P, n) <= nAvail}}
              ELSE {})
        \cup {[at |-> "vm", idx |-> f] :
                  f \in {g \in 0..(P.num_threads - 1) : g <= nAvail}}
        \cup (IF nAvail >= P.num_threads THEN {NoFail} ELSE {})

\* one NUMA node after initialize's loop: L VMs were created in all, cf is the
\* node whose cache allocation failed (-1: none)
InitNode(P, node, seed, L, cf, fresh) ==
    LET old == P.numa_nodes[node]
        cnt == ThreadsPerNode(P, node)
        off == NodeOffset(P, node)
    IN  IF cnt = 0 THEN old
        ELSE IF cf = node THEN [cache |-> Null, vms |-> old.vms]
        ELSE IF cf # -1 /\ node > cf THEN old
        ELSE IF off + cnt <= L
             THEN [cache |-> seed, vms |-> SubSeqFrom(fresh, off, cnt)]
        ELSE IF off <= L
             THEN [cache |-> seed,
                   vms |-> Fill(Resize(old.vms, cnt), L - off,
                                SubSeqFrom(fresh, off, L - off))]
        ELSE old

\* Miner::initialize as a function of the pool: the pool it leaves and its result
DoInitialize(P, seed, fail) ==
    IF SeedSize(seed) # SeedBytes THEN [pool |-> P, ok |-> FALSE]
    ELSE IF fail.at = "cache"
    THEN [pool |-> [P EXCEPT !.current_seed_hash = seed, !.legacy_cache = Null],
          ok |-> FALSE]
    ELSE IF fail.at = "dataset"
    THEN [pool |-> [P EXCEPT !.current_seed_hash = seed, !.legacy_cache = Null,
                             !.dataset = Null],
          ok |-> FALSE]
    ELSE
    LET P1 == [P EXCEPT !.current_seed_hash = seed, !.legacy_cache = seed,
                        !.dataset = IF fast_mode THEN seed ELSE P.dataset]
        total == P.num_threads
        L == IF fail.at = "none" THEN total
             ELSE IF fail.at = "vm" THEN fail.idx
             ELSE NodeOffset(P, fail.idx)
        cf == IF fail.at = "node_cache" THEN fail.idx ELSE -1
        fresh == Pick(Available(P.vm_heap), L)
        key == IF fast_mode THEN "ds" ELSE seed
        heap == [h \in Handles |-> IF h \in RangeOf(fresh) THEN key ELSE P.vm_heap[h]]
    IN  IF numa_available /\ ~fast_mode
        THEN [pool |-> [P1 EXCEPT
                  !.numa_nodes = [n \in Nodes |-> InitNode(P, n, seed, L, cf, fresh)],
                  !.vm_heap = heap],
              ok |-> (fail.at = "none")]
        ELSE [pool |-> [P1 EXCEPT
                  !.legacy_vms = Fill(Resize(P.legacy_vms, total), L, fresh),
                  !.vm_heap = heap],
              ok |-> (fail.at = "none")]

\* heap after randomx_destroy_vm on every non-null handle of the set hs
Destroy(heap, hs) == [h \in Handles |-> IF h \in hs THEN "free" ELSE heap[h]]

\* ------------------------------------------------------------ update_seed
UsNumaPath == numa_available /\ ~fast_mode
\* slots the NUMA loop of update_seed visits before node: the VMs of the
\* earlier nodes that have a cache
UsOffset(P, node) ==
    LET before == {n \in Nodes : n < node /\ P.numa_nodes[n].cache # Null}
        RECURSIVE Sum(_)
        Sum(S) == IF S = {} THEN 0
                  ELSE LET m == Min(S) IN Len(P.numa_nodes[m].vms) + Sum(S \ {m})
    IN  Sum(before)
UsTotal(P) ==
    IF UsNumaPath THEN UsOffset(P, NumNodes) ELSE Len(P.legacy_vms)

\* does the body of update_seed recreate VMs (a loop that can fail)?
UsRecreates(P) ==
    \/ UsNumaPath
    \/ P.legacy_cache # Null /\ ~(fast_mode /\ P.dataset # Null)

\* the handles the first k visited slots hold (destroyed before re-creation)
UsVisited(P, k) ==
    IF UsNumaPath
    THEN UNION {{P.numa_nodes[n].vms[i] :
                    i \in {j \in 1..Len(P.numa_nodes[n].vms) :
                               UsOffset(P, n) + j <= k}} :
                n \in {m \in Nodes : P.numa_nodes[m].cache # Null}} \ {NoVm}
    ELSE {P.legacy_vms[i] : i \in {j \in 1..Len(P.legacy_vms) : j <= k}} \ {NoVm}

UsFails(P) ==
    IF ~UsRecreates(P) THEN {NoFail}
    ELSE LET total == UsTotal(P)
             CanDo(f) == f <= Cardinality(Available(Destroy(P.vm_heap,
                                                    UsVisited(P, f))))
         IN  {[at |-> "vm", idx |-> f] :
                  f \in {g \in 0..(total - 1) : CanDo(g)}}
             \cup (IF CanDo(total) THEN {NoFail} ELSE {})

UsNode(P, node, seed, L, fresh) ==
    LET old == P.numa_nodes[node]
        off == UsOffset(P, node)
        len == Len(old.vms)
    IN  IF old.cache = Null \/ off > L THEN old
        ELSE IF off + len <= L
             THEN [cache |-> seed, vms |-> SubSeqFrom(fresh, off, len)]
        ELSE [cache |-> seed,
              vms |-> Fill(old.vms, L - off, SubSeqFrom(fresh, off, L - off))]

\* an update that records the new seed and re-keys nothing
DoUpdateSeedRecordOnly(P, seed, fail) ==
    [pool |-> [P EXCEPT !.current_seed_hash = seed], ok |-> TRUE]

\* Miner::update_seed after its size and equality tests and its stop()
DoUpdateSeed(P, seed, fail) ==
    LET total == UsTotal(P)
        L == IF fail.at = "none" THEN total ELSE fail.idx
        gone == UsVisited(P, IF fail.at = "none" THEN total ELSE L + 1)
        freed == Destroy(P.vm_heap, gone)
        fresh == Pick(Available(freed), L)
        key == IF fast_mode THEN "ds" ELSE seed
        heap == [h \in Handles |-> IF h \in RangeOf(fresh) THEN key ELSE freed[h]]
    IN  IF UsNumaPath
        THEN [pool |-> [P EXCEPT
                  !.current_seed_hash = seed,
                  !.numa_nodes = [n \in Nodes |-> UsNode(P, n, seed, L, fresh)],
                  !.vm_heap = heap],
              ok |-> (fail.at = "none")]
        ELSE IF P.legacy_cache = Null THEN [pool |-> P, ok |-> FALSE]
        ELSE IF fast_mode /\ P.dataset # Null
        THEN [pool |-> [P EXCEPT !.current_seed_hash = seed, !.legacy_cache = seed,
                                 !.dataset = seed],
              ok |-> TRUE]
        ELSE [pool |-> [P EXCEPT
                  !.current_seed_hash = seed, !.legacy_cache = seed,
                  !.legacy_vms = Fill(P.legacy_vms, L, fresh),
                  !.vm_heap = heap],
              ok |-> (fail.at = "none")]

\* ------------------------------------------------------- set_thread_count
\* a cleanup that keeps the old thread count and its NUMA tables
ReleasedKeepsCount(P, n) ==
    LET nodeVms == IF numa_available
                   THEN UNION {RangeOf(P.numa_nodes[k].vms) : k \in Nodes}
                   ELSE {}
        gone == (nodeVms \cup RangeOf(P.legacy_vms)) \ {NoVm}
    IN  [P EXCEPT
            !.numa_nodes = IF numa_available
                           THEN [k \in Nodes |-> [cache |-> Null, vms |-> <<>>]]
                           ELSE P.numa_nodes,
            !.legacy_vms = <<>>,
            !.legacy_cache = Null,
            !.dataset = Null,
            !.vm_heap = Destroy(P.vm_heap, gone)]

\* the pool after set_thread_count released everything and took the new count
Released(P, n) ==
    LET nodeVms == IF numa_available
                   THEN UNION {RangeOf(P.numa_nodes[k].vms) : k \in Nodes}
                   ELSE {}
        gone == (nodeVms \cup RangeOf(P.legacy_vms)) \ {NoVm}
    IN  [P EXCEPT
            !.numa_nodes = IF numa_available
                           THEN [k \in Nodes |-> [cache |-> Null, vms |-> <<>>]]
                           ELSE P.numa_nodes,
            !.legacy_vms = <<>>,
            !.legacy_cache = Null,
            !.dataset = Null,
            !.vm_heap = Destroy(P.vm_heap, gone),
            !.num_threads = n,
            !.thread_to_node = IF numa_available THEN DistributeNodes(n)
                               ELSE P.thread_to_node,
            !.thread_to_cpu = IF numa_available THEN DistributeCpus(n)
                              ELSE P.thread_to_cpu]

StcFails(P, n) ==
    IF P.current_seed_hash = Null THEN {NoFail} ELSE InitFails(Released(P, n))

\* Miner::set_thread_count after its tests and its stop()
DoSetThreadCount(P, n, fail) ==
    LET R == Released(P, n)
    IN  IF R.current_seed_hash # Null
        THEN DoInitialize(R, R.current_seed_hash, fail)
        ELSE [pool |-> R, ok |-> TRUE]

\* ------------------------------------------------------ get_vm_for_thread
\* a lookup that takes the first VM of the thread's node
GetVmForThreadNoRank(P, thread_id) ==
    LET legacy == IF thread_id < Len(P.legacy_vms)
                  THEN P.legacy_vms[thread_id + 1] ELSE NoVm
    IN  IF numa_available /\ thread_id < Len(P.thread_to_node)
        THEN LET node == P.thread_to_node[thread_id + 1]
             IN  IF node < NumNodes /\ 0 < Len(P.numa_nodes[node].vms)
                 THEN P.numa_nodes[node].vms[1]
                 ELSE legacy
        ELSE legacy

GetVmForThread(P, thread_id) ==
    LET legacy == IF thread_id < Len(P.legacy_vms)
                  THEN P.legacy_vms[thread_id + 1] ELSE NoVm
    IN  IF numa_available /\ thread_id < Len(P.thread_to_node)
        THEN LET node == P.thread_to_node[thread_id + 1]
                 vm_index == Cardinality({t \in 0..(thread_id - 1) :
                                             P.thread_to_node[t + 1] = node})
             IN  IF node < NumNodes /\ vm_index < Len(P.numa_nodes[node].vms)
                 THEN P.numa_nodes[node].vms[vm_index + 1]
                 ELSE legacy
        ELSE legacy

\* ------------------------------------------------- templates and hashing
NoTemplate == [seed_hash |-> Null, header_base |-> 0, target |-> <<0, 0>>]
TemplateFor(s) == [seed_hash |-> s,
                   header_base |-> IF s = "A" THEN 1 ELSE 2,
                   target |-> <<WordMod - 1, 0>>]
Templates == {TemplateFor(s) : s \in Seeds}

Hashes == {<<a, b>> : a \in 0..(WordMod - 1), b \in 0..(WordMod - 1)}

\* randomx_calculate_hash: a fixed function of the VM's key and the input
RandomXHash(key, input) ==
    LET k == IF key = "A" THEN 1 ELSE 2
        v == (k + input[1] + (k + 1) * input[2]) % (WordMod * WordMod)
    IN  <<v % WordMod, v \div WordMod>>

\* the word loop with equal hash and target refused
RECURSIVE MeetsFromStrict(_, _, _)
MeetsFromStrict(hash, target, word) ==
    IF word = 0 THEN FALSE
    ELSE IF hash[word] < target[word] THEN TRUE
    ELSE IF hash[word] > target[word] THEN FALSE
    ELSE MeetsFromStrict(hash, target, word - 1)
RECURSIVE MeetsFrom(_, _, _)
MeetsFrom(hash, target, word) ==
    IF word = 0 THEN TRUE
    ELSE IF hash[word] < target[word] THEN TRUE
    ELSE IF hash[word] > target[word] THEN FALSE
    ELSE MeetsFrom(hash, target, word - 1)
\* utils::hash_meets_target: words compared from the most significant down
hash_meets_target(hash, target) == MeetsFrom(hash, target, Len(hash))

\* --------------------------------------------------- calls of the utilities
\* call is the call of a free function (parse_block_template, hash_meets_target,
\* compact_to_target) under examination: its arguments and, once it has
\* returned, its result
NoCall == [fn |-> "none", arg |-> <<>>, returned |-> FALSE, out |-> <<>>]

\* byte vectors (std::vector<uint8_t>, uint8_t*) are functions on 0..(n-1)
Size(v) == Cardinality(DOMAIN v)
Zeros(n) == [i \in 0..(n - 1) |-> 0]
\* a copy without the reversal
ReverseKeeps(v) == v
\* std::reverse(v.begin(), v.end())
Reverse(v) == [i \in DOMAIN v |-> v[Size(v) - 1 - i]]

\* strings are sequences of characters; "g" stands for any character that is
\* not a hex digit (no sign, blank or 0x prefix is in the alphabet)
HexDigits == <<"0", "1", "2", "3", "4", "5", "6", "7",
               "8", "9", "a", "b", "c", "d", "e", "f">>
IsHex(c) == \E d \in 1..16 : HexDigits[d] = c
HexVal(c) == (CHOOSE d \in 1..16 : HexDigits[d] = c) - 1

\* std::stoi(byte_str, nullptr, 16) of a string of one or two characters:
\* std::invalid_argument when it does not start with a digit, else the value of
\* the longest prefix of digits
StoiThrows(byte_str) == ~IsHex(byte_str[1])
stoi(byte_str) ==
    IF Len(byte_str) = 2 /\ IsHex(byte_str[2])
    THEN 16 * HexVal(byte_str[1]) + HexVal(byte_str[2])
    ELSE HexVal(byte_str[1])

\* hex.substr(i, 2) for i = 2 * j: the last one of an odd-length string has one
\* character
ByteStr(hex, j) ==
    SubSeq(hex, 2 * j + 1, IF 2 * j + 2 <= Len(hex) THEN 2 * j + 2 ELSE Len(hex))
\* utils::hex_to_bytes: one byte per step of two characters
HexToBytesThrows(hex) ==
    \E j \in 0..((Len(hex) + 1) \div 2 - 1) : StoiThrows(ByteStr(hex, j))
hex_to_bytes(hex) ==
    [j \in 0..((Len(hex) + 1) \div 2 - 1) |-> stoi(ByteStr(hex, j))]

\* std::stoul(str, nullptr, 16): the longest prefix of digits read as a number,
\* most significant digit first; std::invalid_argument when it is empty. The
\* strings examined have at most 8 digits and a value below 2^31, so the
\* conversion to uint32_t keeps the value.
HexPrefix(str) == Cardinality({k \in 1..Len(str) : \A i \in 1..k : IsHex(str[i])})
RECURSIVE HexNumber(_, _)
HexNumber(str, k) ==
    IF k = 0 THEN 0 ELSE 16 * HexNumber(str, k - 1) + HexVal(str[k])
StoulThrows(str) == HexPrefix(str) = 0
stoul(str) == HexNumber(str, HexPrefix(str))

\* utils::read_le32(data + off)
read_le32(data, off) ==
    data[off] + 256 * data[off + 1] + 65536 * data[off + 2]
        + 16777216 * data[off + 3]
\* utils::write_le32: the four bytes written
write_le32(value) ==
    [i \in 0..3 |-> (value \div (2 ^ (8 * i))) % 256]

\* utils::compact_to_target with the mantissa's bytes stored high byte first
compact_to_target_swapped(compact_bits) ==
    LET size == compact_bits \div 16777216
        word == compact_bits % 8388608
        shifted == word \div (2 ^ (8 * (3 - size)))
        pos == size - 3
    IN  IF size <= 3
        THEN [i \in 0..(HashBytes - 1) |->
                IF i < 3 /\ i < size THEN (shifted \div (2 ^ (8 * i))) % 256 ELSE 0]
        ELSE IF size <= 32
        THEN [i \in 0..(HashBytes - 1) |->
                IF i = pos THEN (word \div 65536) % 256
                ELSE IF i = pos + 1 THEN (word \div 256) % 256
                ELSE IF i = pos + 2 THEN word % 256
                ELSE 0]
        ELSE Zeros(HashBytes)
\* utils::compact_to_target with the mantissa's sign bit kept
compact_to_target_signed(compact_bits) ==
    LET size == compact_bits \div 16777216
        word == compact_bits % 16777216
        shifted == word \div (2 ^ (8 * (3 - size)))
        pos == size - 3
    IN  IF size <= 3
        THEN [i \in 0..(HashBytes - 1) |->
                IF i < 3 /\ i < size THEN (shifted \div (2 ^ (8 * i))) % 256 ELSE 0]
        ELSE IF size <= 32
        THEN [i \in 0..(HashBytes - 1) |->
                IF i = pos THEN word % 256
                ELSE IF i = pos + 1 THEN (word \div 256) % 256
                ELSE IF i = pos + 2 THEN (word \div 65536) % 256
                ELSE 0]
        ELSE Zeros(HashBytes)
\* utils::compact_to_target
compact_to_target(compact_bits) ==
    LET size == compact_bits \div 16777216
        word == compact_bits % 8388608
        shifted == word \div (2 ^ (8 * (3 - size)))
        pos == size - 3
    IN  IF size <= 3
        THEN [i \in 0..(HashBytes - 1) |->
                IF i < 3 /\ i < size THEN (shifted \div (2 ^ (8 * i))) % 256 ELSE 0]
        ELSE IF size <= 32
        THEN [i \in 0..(HashBytes - 1) |->
                IF i = pos THEN word % 256
                ELSE IF i = pos + 1 THEN (word \div 256) % 256
                ELSE IF i = pos + 2 THEN (word \div 65536) % 256
                ELSE 0]
        ELSE Zeros(HashBytes)

\* the eight words hash_meets_target reads: read_le32(hash + word * 4)
LeWords(bytes) == [word \in 1..(HashBytes \div 4) |-> read_le32(bytes, (word - 1) * 4)]

\* uint64_t values are four 16-bit limbs, least significant first
U64(n) == <<n % 65536, n \div 65536, 0, 0>>
\* (n >> (8 * k)) & 0xff
ByteOf(n, k) == (n[(k \div 2) + 1] \div (IF k % 2 = 0 THEN 1 ELSE 256)) % 256
\* utils::encode_varint with every multi-byte value written high byte first
encode_varint_be(n) ==
    IF n[4] = 0 /\ n[3] = 0 /\ n[2] = 0 /\ n[1] < 253 THEN <<n[1]>>
    ELSE IF n[4] = 0 /\ n[3] = 0 /\ n[2] = 0
    THEN <<253>> \o [k \in 1..2 |-> ByteOf(n, 2 - k)]
    ELSE IF n[4] = 0 /\ n[3] = 0
    THEN <<254>> \o [k \in 1..4 |-> ByteOf(n, 4 - k)]
    ELSE <<255>> \o [k \in 1..8 |-> ByteOf(n, 8 - k)]
\* utils::encode_varint: the characters appended to result
encode_varint(n) ==
    IF n[4] = 0 /\ n[3] = 0 /\ n[2] = 0 /\ n[1] < 253 THEN <<n[1]>>
    ELSE IF n[4] = 0 /\ n[3] = 0 /\ n[2] = 0
    THEN <<253>> \o [k \in 1..2 |-> ByteOf(n, k - 1)]
    ELSE IF n[4] = 0 /\ n[3] = 0
    THEN <<254>> \o [k \in 1..4 |-> ByteOf(n, k - 1)]
    ELSE <<255>> \o [k \in 1..8 |-> ByteOf(n, k - 1)]

\* the bytes of a vector in order, as appended to a std::string
AsSeq(v) == [i \in 1..Cardinality(DOMAIN v) |-> v[i - 1]]
\* utils::bytes_to_hex: two lower-case digits for each byte
bytes_to_hex(data) ==
    [i \in 1..(2 * Len(data)) |->
        IF i % 2 = 1 THEN HexDigits[(data[(i + 1) \div 2] \div 16) + 1]
        ELSE HexDigits[(data[i \div 2] % 16) + 1]]
\* the bytes of transactions from..to appended in order
RECURSIVE TxBytes(_, _, _)
TxBytes(txn_hex, from, to) ==
    IF from > to THEN <<>>
    ELSE IF from = to THEN AsSeq(hex_to_bytes(txn_hex[from]))
    ELSE TxBytes(txn_hex, from, (from + to) \div 2)
            \o TxBytes(txn_hex, (from + to) \div 2 + 1, to)
\* utils::serialize_block with the transactions left out
serialize_block_no_txs(header, solution, coinbase_hex, txn_hex) ==
    bytes_to_hex(AsSeq(header)
                    \o encode_varint(U64(Cardinality(DOMAIN solution)))
                    \o AsSeq(solution)
                    \o encode_varint(U64(1 + Len(txn_hex)))
                    \o AsSeq(hex_to_bytes(coinbase_hex)))
\* utils::serialize_block; std::stoi throws out of it for a transaction that
\* is not hex
SerializeThrows(coinbase_hex, txn_hex) ==
    \/ HexToBytesThrows(coinbase_hex)
    \/ \E k \in 1..Len(txn_hex) : HexToBytesThrows(txn_hex[k])
serialize_block(header, solution, coinbase_hex, txn_hex) ==
    bytes_to_hex(AsSeq(header)
                    \o encode_varint(U64(Cardinality(DOMAIN solution)))
                    \o AsSeq(solution)
                    \o encode_varint(U64(1 + Len(txn_hex)))
                    \o AsSeq(hex_to_bytes(coinbase_hex))
                    \o TxBytes(txn_hex, 1, Len(txn_hex)))

\* RPCClient::submit_block: response is the result RPCClient::call stored, or
\* the call failed; the answer is the return value and the result string
submit_block_any_string(response) ==
    IF ~response.called THEN [ok |-> FALSE, result |-> ""]
    ELSE IF response.type = "null" THEN [ok |-> TRUE, result |-> "accepted"]
    ELSE IF response.type = "string" THEN [ok |-> TRUE, result |-> response.str]
    ELSE [ok |-> FALSE, result |-> "unknown"]
submit_block(response) ==
    IF ~response.called THEN [ok |-> FALSE, result |-> ""]
    ELSE IF response.type = "null" THEN [ok |-> TRUE, result |-> "accepted"]
    ELSE IF response.type = "string"
    THEN [ok |-> response.str \in {"duplicate", "inconclusive",
                                   "duplicate-inconclusive"},
          result |-> response.str]
    ELSE [ok |-> FALSE, result |-> "unknown"]

\* Json::Value: the names that isMember answers true for, and their values
isMember(template_data, name) == name \in template_data.members
\* template_data["defaultroots"].isMember(name) and the like
IsMemberOf(template_data, object, name) ==
    /\ isMember(template_data, object)
    /\ isMember(template_data, object \o "." \o name)

Thrown(what) == [ok |-> FALSE, what |-> what]
\* the part of parse_block_template that builds header_base
BuildHeader(bt) ==
    LET prev_hash_bytes == hex_to_bytes(bt.previous_block_hash)
        merkle_bytes == hex_to_bytes(bt.merkle_root)
        commitments_bytes == hex_to_bytes(bt.block_commitments_hash)
        header_base ==
            [i \in 0..(HeaderBytes - 1) |->
                IF i < 4 THEN write_le32(bt.version)[i]
                ELSE IF i < 36 THEN Reverse(prev_hash_bytes)[i - 4]
                ELSE IF i < 68 THEN Reverse(merkle_bytes)[i - 36]
                ELSE IF i < 100 THEN Reverse(commitments_bytes)[i - 68]
                ELSE IF i < 104 THEN write_le32(bt.time)[i - 100]
                ELSE IF i < 108 THEN write_le32(bt.bits)[i - 104]
                ELSE 0]
    IN  IF HexToBytesThrows(bt.previous_block_hash) THEN Thrown("stoi")
        ELSE IF Size(prev_hash_bytes) # 32
             THEN Thrown("Invalid previousblockhash size")
        ELSE IF HexToBytesThrows(bt.merkle_root) THEN Thrown("stoi")
        ELSE IF Size(merkle_bytes) # 32 THEN Thrown("Invalid merkleroot size")
        ELSE IF HexToBytesThrows(bt.block_commitments_hash) THEN Thrown("stoi")
        ELSE IF Size(commitments_bytes) # 32
             THEN Thrown("Invalid blockcommitmentshash size")
        ELSE [ok |-> TRUE, bt |-> [bt EXCEPT !.header_base = header_base]]

\* parse_block_template: the BlockTemplate, or the exception that leaves it
parse_block_template(template_data) ==
    LET v == template_data.value
        commitments ==
            IF IsMemberOf(template_data, "defaultroots", "blockcommitmentshash")
            THEN v.defaultroots_blockcommitmentshash
            ELSE v.blockcommitmentshash
        next_seed_used == /\ isMember(template_data, "randomxnextseedhash")
                          /\ Len(v.randomxnextseedhash) = 64
        bt == [version |-> v.version,
               previous_block_hash |-> v.previousblockhash,
               time |-> v.curtime,
               bits |-> stoul(v.bits),
               height |-> v.height,
               seed_height |-> v.randomxseedheight,
               seed_hash |-> hex_to_bytes(v.randomxseedhash),
               next_seed_hash |-> IF next_seed_used
                                  THEN hex_to_bytes(v.randomxnextseedhash)
                                  ELSE <<>>,
               target |-> compact_to_target(stoul(v.bits)),
               target_hex |-> IF isMember(template_data, "target")
                              THEN v.target ELSE <<>>,
               merkle_root |-> v.defaultroots_merkleroot,
               block_commitments_hash |-> commitments,
               coinbase_txn_hex |-> v.coinbasetxn_data,
               txn_hex |-> IF isMember(template_data, "transactions")
                           THEN v.transactions ELSE <<>>,
               header_base |-> <<>>]
    IN  IF ~isMember(template_data, "version") THEN Thrown("Missing version")
        ELSE IF ~isMember(template_data, "previousblockhash")
             THEN Thrown("Missing previousblockhash")
        ELSE IF ~isMember(template_data, "curtime") THEN Thrown("Missing curtime")
        ELSE IF ~isMember(template_data, "bits") THEN Thrown("Missing bits")
        ELSE IF StoulThrows(v.bits) THEN Thrown("stoul")
        ELSE IF ~isMember(template_data, "height") THEN Thrown("Missing height")
        ELSE IF ~isMember(template_data, "randomxseedheight")
             THEN Thrown("Missing randomxseedheight")
        ELSE IF ~isMember(template_data, "randomxseedhash")
             THEN Thrown("Missing randomxseedhash")
        ELSE IF Len(v.randomxseedhash) # 64
             THEN Thrown("Invalid randomxseedhash length")
        ELSE IF HexToBytesThrows(v.randomxseedhash) THEN Thrown("stoi")
        ELSE IF next_seed_used /\ HexToBytesThrows(v.randomxnextseedhash)
             THEN Thrown("stoi")
        ELSE IF ~IsMemberOf(template_data, "defaultroots", "merkleroot")
             THEN Thrown("Missing defaultroots.merkleroot")
        ELSE IF Len(v.defaultroots_merkleroot) # 64
             THEN Thrown("Invalid merkleroot length")
        ELSE IF /\ ~IsMemberOf(template_data, "defaultroots", "blockcommitmentshash")
                /\ ~isMember(template_data, "blockcommitmentshash")
             THEN Thrown("Missing blockcommitmentshash")
        ELSE IF Len(commitments) # 64
             THEN Thrown("Invalid blockcommitmentshash length")
        ELSE IF ~IsMemberOf(template_data, "coinbasetxn", "data")
             THEN Thrown("Missing coinbasetxn.data")
        ELSE BuildHeader(bt)

\* ------------------------------------------------------------------ Init
Idle == [pc |-> "idle", op |-> "none", seed |-> Null, n |-> 0, tmpl |-> NoTemplate]
NoRet == [op |-> "none", ok |-> FALSE, header |-> <<>>, hash |-> <<>>,
          tmpl |-> NoTemplate, val |-> 0]
Returned(op, ok) == [NoRet EXCEPT !.op = op, !.ok = ok]
\* the locals of main() before its first statement that touches the miner
MainStart == [pc |-> "startup", seed |-> Null, tmpl |-> NoTemplate,
              changed |-> FALSE, running |-> TRUE, disconnected |-> FALSE,
              failures |-> 0, status |-> -1, submitted |-> FALSE, mined |-> 0]

\* the miner after construction with one of the thread counts 1..maxThreads
Constructed(maxThreads) ==
    /\ num_threads \in 1..maxThreads
    /\ fast_mode \in BOOLEAN
    /\ numa_available \in BOOLEAN
    /\ current_seed_hash = Null
    /\ legacy_cache = Null
    /\ dataset = Null
    /\ legacy_vms = <<>>
    /\ numa_nodes = [k \in Nodes |-> [cache |-> Null, vms |-> <<>>]]
    /\ thread_to_node = IF numa_available THEN DistributeNodes(num_threads) ELSE <<>>
    /\ thread_to_cpu = IF numa_available THEN DistributeCpus(num_threads) ELSE <<>>
    /\ vm_heap = [h \in Handles |-> "free"]
    /\ mining = FALSE
    /\ found = FALSE
    /\ hash_count = 0
    /\ solution_nonce = <<>>
    /\ solution_hash = <<>>
    /\ solution_header = <<>>
    /\ solution_template = NoTemplate
    /\ threads = {}
    /\ block_template = NoTemplate
    /\ pc = [w \in Workers |-> "none"]
    /\ w_vm = [w \in Workers |-> NoVm]
    /\ w_key = [w \in Workers |-> Null]
    /\ w_nonce = [w \in Workers |-> 0]
    /\ w_hash = [w \in Workers |-> <<>>]
    /\ ctl = Idle
    /\ ret = NoRet
    /\ main = MainStart
    /\ hashed = 0

Init == Constructed(MaxThreads) /\ call = NoCall

\* ------------------------------------------------------- worker_thread
\* the thread returns: its locals are gone
Exit(w) ==
    /\ pc' = [pc EXCEPT ![w] = "exited"]
    /\ w_vm' = [w_vm EXCEPT ![w] = NoVm]
    /\ w_key' = [w_key EXCEPT ![w] = Null]
    /\ w_nonce' = [w_nonce EXCEPT ![w] = 0]
    /\ w_hash' = [w_hash EXCEPT ![w] = <<>>]

Goto(w, label) == pc' = [pc EXCEPT ![w] = label]

\* get_vm_for_thread, the null test and the random nonce
WorkerGetVm(w) ==
    /\ pc[w] = "spawned"
    /\ LET vm == GetVmForThread(Pool, w)
       IN  IF vm = NoVm
           THEN Exit(w)
           ELSE /\ w_vm' = [w_vm EXCEPT ![w] = vm]
                /\ w_key' = [w_key EXCEPT ![w] = VmKey(vm_heap, dataset, vm)]
                /\ \E n \in 0..(NonceSpace - 1) : w_nonce' = [w_nonce EXCEPT ![w] = n]
                /\ Goto(w, "loop")
                /\ UNCHANGED w_hash
    /\ UNCHANGED <<poolVars, cfgVars, hashed, flagVars, slotVars, threads, block_template,
                   ctl, ret>>

\* a loop that tests found_ only
WorkerLoopIgnoresMining(w) ==
    /\ pc[w] = "loop"
    /\ IF ~found
       THEN /\ hash_count < MaxHashes
            /\ Goto(w, "hash")
            /\ UNCHANGED <<w_vm, w_key, w_nonce, w_hash>>
       ELSE Exit(w)
    /\ UNCHANGED <<poolVars, cfgVars, hashed, flagVars, slotVars, threads, block_template,
                   ctl, ret>>

\* while (mining_.load() && !found_.load()): found_ only rises and mining_ only
\* falls while a worker runs, so the two loads are taken as one
WorkerLoop(w) ==
    /\ pc[w] = "loop"
    /\ IF mining /\ ~found
       THEN /\ hash_count < MaxHashes
            /\ Goto(w, "hash")
            /\ UNCHANGED <<w_vm, w_key, w_nonce, w_hash>>
       ELSE Exit(w)
    /\ UNCHANGED <<poolVars, cfgVars, hashed, flagVars, slotVars, threads, block_template,
                   ctl, ret>>

\* the VM the worker fetched is still the VM it fetched
VmIntact(w) == VmKey(vm_heap, dataset, w_vm[w]) = w_key[w] /\ w_key[w] # Null

\* the 140 bytes hashed: header_base[0..108) followed by the nonce
HashInput(w) == <<block_template.header_base, w_nonce[w]>>

\* next nonce: the 256-bit little-endian increment
NextNonce(n) == (n + 1) % NonceSpace

\* randomx_calculate_hash(vm, hash_input, 140, hash), where a destroyed or
\* re-keyed VM yields any 32 bytes
WorkerHash(w) ==
    /\ pc[w] = "hash"
    /\ \E h \in Hashes :
          /\ VmIntact(w) => h = RandomXHash(w_key[w], HashInput(w))
          /\ w_hash' = [w_hash EXCEPT ![w] = h]
    /\ hashed' = hashed + 1
    /\ Goto(w, "count")
    /\ UNCHANGED <<poolVars, cfgVars, flagVars, slotVars, threads,
                   block_template, w_vm, w_key, w_nonce, ctl, ret>>

\* a counter that skips the hash that met the target
WorkerCountMissesOnly(w) ==
    /\ pc[w] = "count"
    /\ IF hash_meets_target(w_hash[w], block_template.target)
       THEN /\ Goto(w, "cas")
            /\ UNCHANGED <<w_nonce, w_hash, hash_count>>
       ELSE /\ hash_count' = hash_count + 1
            /\ w_nonce' = [w_nonce EXCEPT ![w] = NextNonce(w_nonce[w])]
            /\ w_hash' = [w_hash EXCEPT ![w] = <<>>]
            /\ Goto(w, "loop")
    /\ UNCHANGED <<poolVars, cfgVars, hashed, mining, found, slotVars, threads,
                   block_template, w_vm, w_key, ctl, ret>>

\* hash_count_.fetch_add(1), the target test and, when it fails, the nonce
\* increment
WorkerCount(w) ==
    /\ pc[w] = "count"
    /\ hash_count' = hash_count + 1
    /\ IF hash_meets_target(w_hash[w], block_template.target)
       THEN /\ Goto(w, "cas")
            /\ UNCHANGED <<w_nonce, w_hash>>
       ELSE /\ w_nonce' = [w_nonce EXCEPT ![w] = NextNonce(w_nonce[w])]
            /\ w_hash' = [w_hash EXCEPT ![w] = <<>>]
            /\ Goto(w, "loop")
    /\ UNCHANGED <<poolVars, cfgVars, hashed, mining, found, slotVars, threads,
                   block_template, w_vm, w_key, ctl, ret>>

\* a test-free store in place of the compare-and-set: every caller wins
WorkerCasAlwaysWins(w) ==
    /\ pc[w] = "cas"
    /\ found' = TRUE
    /\ Goto(w, "w_nonce")
    /\ UNCHANGED <<w_vm, w_key, w_nonce, w_hash>>
    /\ UNCHANGED <<poolVars, cfgVars, hashed, mining, hash_count, slotVars, threads,
                   block_template, ctl, ret>>

\* the winner clears mining_ at once, before it writes the solution
WorkerCasEarlyClear(w) ==
    /\ pc[w] = "cas"
    /\ IF found = FALSE
       THEN /\ found' = TRUE
            /\ mining' = FALSE
            /\ Goto(w, "w_nonce")
            /\ UNCHANGED <<w_vm, w_key, w_nonce, w_hash>>
       ELSE found' = found /\ mining' = mining /\ Exit(w)
    /\ UNCHANGED <<poolVars, cfgVars, hashed, hash_count, slotVars, threads,
                   block_template, ctl, ret>>

\* found_.compare_exchange_strong(expected = false, true)
WorkerCas(w) ==
    /\ pc[w] = "cas"
    /\ IF found = FALSE
       THEN /\ found' = TRUE
            /\ Goto(w, "w_nonce")
            /\ UNCHANGED <<w_vm, w_key, w_nonce, w_hash>>
       ELSE found' = found /\ Exit(w)
    /\ UNCHANGED <<poolVars, cfgVars, hashed, mining, hash_count, slotVars, threads,
                   block_template, ctl, ret>>

WorkerWriteNonce(w) ==
    /\ pc[w] = "w_nonce"
    /\ solution_nonce' = <<w_nonce[w]>>
    /\ Goto(w, "w_hash")
    /\ UNCHANGED <<poolVars, cfgVars, hashed, flagVars, solution_hash, solution_header,
                   solution_template, threads, block_template,
                   w_vm, w_key, w_nonce, w_hash, ctl, ret>>

WorkerWriteHash(w) ==
    /\ pc[w] = "w_hash"
    /\ solution_hash' = w_hash[w]
    /\ Goto(w, "w_header")
    /\ UNCHANGED <<poolVars, cfgVars, hashed, flagVars, solution_nonce, solution_header,
                   solution_template, threads, block_template,
                   w_vm, w_key, w_nonce, w_hash, ctl, ret>>

\* the header is stored without the nonce copied in
WorkerWriteHeaderNoNonce(w) ==
    /\ pc[w] = "w_header"
    /\ solution_header' = <<block_template.header_base, 0>>
    /\ Goto(w, "w_template")
    /\ UNCHANGED <<poolVars, cfgVars, hashed, flagVars, solution_nonce, solution_hash,
                   solution_template, threads, block_template,
                   w_vm, w_key, w_nonce, w_hash, ctl, ret>>

WorkerWriteHeader(w) ==
    /\ pc[w] = "w_header"
    /\ solution_header' = HashInput(w)
    /\ Goto(w, "w_template")
    /\ UNCHANGED <<poolVars, cfgVars, hashed, flagVars, solution_nonce, solution_hash,
                   solution_template, threads, block_template,
                   w_vm, w_key, w_nonce, w_hash, ctl, ret>>

WorkerWriteTemplate(w) ==
    /\ pc[w] = "w_template"
    /\ solution_template' = block_template
    /\ Goto(w, "clear_mining")
    /\ UNCHANGED <<poolVars, cfgVars, hashed, flagVars, solution_nonce, solution_hash,
                   solution_header, threads, block_template,
                   w_vm, w_key, w_nonce, w_hash, ctl, ret>>

\* mining_ = false; break; the thread returns
WorkerClearMining(w) ==
    /\ pc[w] = "clear_mining"
    /\ mining' = FALSE
    /\ Exit(w)
    /\ UNCHANGED <<poolVars, cfgVars, hashed, found, hash_count, slotVars, threads,
                   block_template, ctl, ret>>

\* ------------------------------------------------------- control thread
IsIdle == ctl.pc = "idle"
Begin(op, pcv) == [Idle EXCEPT !.pc = pcv, !.op = op]

\* detach in place of join: stop() does not wait
JoinNoWait == TRUE

\* every thread of threads_ has returned, so each join() returns
JoinReady == \A w \in threads : pc[w] = "exited"

\* a stop() that also drops the found flag
StopResetsFound ==
    /\ IsIdle
    /\ mining' = FALSE
    /\ found' = FALSE
    /\ ctl' = Begin("stop", "join")
    /\ ret' = NoRet
    /\ UNCHANGED <<poolVars, cfgVars, hashed, hash_count, slotVars, threads,
                   block_template, workerVars>>

\* Miner::stop(): mining_ = false ...
Stop ==
    /\ IsIdle
    /\ mining' = FALSE
    /\ ctl' = Begin("stop", "join")
    /\ ret' = NoRet
    /\ UNCHANGED <<poolVars, cfgVars, hashed, found, hash_count, slotVars, threads,
                   block_template, workerVars>>

\* ... the join loop and threads_.clear(), for stop() and for every caller of it
Join ==
    /\ ctl.pc = "join"
    /\ JoinReady
    /\ pc' = [w \in Workers |-> IF w \in threads /\ pc[w] = "exited"
                                THEN "none" ELSE pc[w]]
    /\ threads' = {}
    /\ IF ctl.op = "stop"
       THEN ctl' = Idle /\ ret' = Returned("stop", TRUE)
       ELSE ctl' = [ctl EXCEPT !.pc = "body"] /\ ret' = ret
    /\ UNCHANGED <<poolVars, cfgVars, hashed, flagVars, slotVars, block_template,
                   w_vm, w_key, w_nonce, w_hash>>

\* Miner::start_mining: stop() first
StartMining(t) ==
    /\ IsIdle
    /\ mining' = FALSE
    /\ ctl' = [Begin("start_mining", "join") EXCEPT !.tmpl = t]
    /\ ret' = NoRet
    /\ UNCHANGED <<poolVars, cfgVars, hashed, found, hash_count, slotVars, threads,
                   block_template, workerVars>>

\* a reset that leaves found_ as the last session left it
StartMiningResetKeepsFound ==
    /\ ctl.pc = "body" /\ ctl.op = "start_mining"
    /\ mining' = TRUE
    /\ found' = found
    /\ hash_count' = 0
    /\ hashed' = 0
    /\ solution_nonce' = <<>>
    /\ solution_hash' = <<>>
    /\ solution_header' = <<>>
    /\ block_template' = ctl.tmpl
    /\ threads' = {}
    /\ ctl' = [ctl EXCEPT !.pc = "spawn", !.n = 0]
    /\ UNCHANGED <<poolVars, cfgVars, solution_template, workerVars, ret>>

\* the flags, the counter and the solution vectors are reset
StartMiningReset ==
    /\ ctl.pc = "body" /\ ctl.op = "start_mining"
    /\ mining' = TRUE
    /\ found' = FALSE
    /\ hash_count' = 0
    /\ hashed' = 0
    /\ solution_nonce' = <<>>
    /\ solution_hash' = <<>>
    /\ solution_header' = <<>>
    /\ block_template' = ctl.tmpl
    /\ threads' = {}
    /\ ctl' = [ctl EXCEPT !.pc = "spawn", !.n = 0]
    /\ UNCHANGED <<poolVars, cfgVars, solution_template, workerVars, ret>>

\* threads_.emplace_back(&Miner::worker_thread, this, i, std::cref(block_template))
StartMiningSpawn ==
    /\ ctl.pc = "spawn"
    /\ LET i == ctl.n
       IN  /\ i < num_threads
           /\ pc' = [pc EXCEPT ![i] = "spawned"]
           /\ threads' = threads \cup {i}
           /\ IF i + 1 = num_threads
              THEN ctl' = Idle /\ ret' = ret
              ELSE ctl' = [ctl EXCEPT !.n = i + 1] /\ ret' = ret
    /\ UNCHANGED <<poolVars, cfgVars, hashed, flagVars, slotVars, block_template,
                   w_vm, w_key, w_nonce, w_hash>>

\* Miner::get_solution: if (mining_.load()) stop();
GetSolution ==
    /\ IsIdle
    /\ IF mining
       THEN mining' = FALSE /\ ctl' = Begin("get_solution", "join")
       ELSE mining' = mining /\ ctl' = Begin("get_solution", "body")
    /\ ret' = NoRet
    /\ UNCHANGED <<poolVars, cfgVars, hashed, found, hash_count, slotVars, threads,
                   block_template, workerVars>>

\* if (found_.load() && !solution_header_.empty()) copy the slot out
GetSolutionRead ==
    /\ ctl.pc = "body" /\ ctl.op = "get_solution"
    /\ ret' = IF found /\ solution_header # <<>>
              THEN [Returned("get_solution", TRUE) EXCEPT
                        !.header = solution_header, !.hash = solution_hash,
                        !.tmpl = solution_template]
              ELSE Returned("get_solution", FALSE)
    /\ ctl' = Idle
    /\ UNCHANGED <<poolVars, cfgVars, hashed, flagVars, slotVars, threads, block_template,
                   workerVars>>

IsMining ==
    /\ IsIdle
    /\ ret' = Returned("is_mining", mining)
    /\ UNCHANGED <<poolVars, cfgVars, hashed, flagVars, slotVars, threads, block_template,
                   workerVars, ctl>>

GetHashCount ==
    /\ IsIdle
    /\ ret' = [Returned("get_hash_count", TRUE) EXCEPT !.val = hash_count]
    /\ UNCHANGED <<poolVars, cfgVars, hashed, flagVars, slotVars, threads, block_template,
                   workerVars, ctl>>

\* Miner::initialize, called while no session exists; fail is the allocation
\* that returns nullptr
Initialize(seed, fail) ==
    /\ IsIdle
    /\ threads = {}
    /\ fail \in InitFails(Pool)
    /\ LET r == DoInitialize(Pool, seed, fail)
       IN  /\ InstallPool(r.pool)
           /\ ret' = Returned("initialize", r.ok)
    /\ UNCHANGED <<cfgVars, hashed, flagVars, slotVars, threads, block_template,
                   workerVars, ctl>>

\* an update_seed that stops the session before it compares the seeds
UpdateSeedStopsFirst(seed) ==
    /\ IsIdle
    /\ mining' = FALSE
    /\ IF SeedSize(seed) # SeedBytes
       THEN /\ ret' = Returned("update_seed", FALSE)
            /\ UNCHANGED ctl
       ELSE IF seed = current_seed_hash
       THEN /\ ret' = Returned("update_seed", TRUE)
            /\ UNCHANGED ctl
       ELSE /\ ret' = NoRet
            /\ ctl' = [Begin("update_seed", IF mining THEN "join" ELSE "body")
                          EXCEPT !.seed = seed]
    /\ UNCHANGED <<poolVars, cfgVars, hashed, found, hash_count, slotVars, threads,
                   block_template, workerVars>>

\* Miner::update_seed: the debug line that formats 32 bytes of the seed, the
\* size test, the equality test, then stop() if mining. For a seed shorter
\* than 32 bytes the debug line reads past the vector: the read yields some
\* bytes and the call goes on, or it traps and the call never returns.
UpdateSeed(seed) ==
    /\ IsIdle
    /\ IF SeedSize(seed) # SeedBytes
       THEN \/ /\ ret' = Returned("update_seed", FALSE)
               /\ UNCHANGED <<mining, ctl>>
            \/ /\ SeedSize(seed) < SeedBytes
               /\ ret' = NoRet
               /\ ctl' = Begin("update_seed", "crashed")
               /\ UNCHANGED mining
       ELSE IF seed = current_seed_hash
       THEN /\ ret' = Returned("update_seed", TRUE)
            /\ UNCHANGED <<mining, ctl>>
       ELSE /\ ret' = NoRet
            /\ mining' = FALSE
            /\ ctl' = [Begin("update_seed", IF mining THEN "join" ELSE "body")
                          EXCEPT !.seed = seed]
    /\ UNCHANGED <<poolVars, cfgVars, hashed, found, hash_count, slotVars, threads,
                   block_template, workerVars>>

UpdateSeedBody(fail) ==
    /\ ctl.pc = "body" /\ ctl.op = "update_seed"
    /\ fail \in UsFails(Pool)
    /\ LET r == DoUpdateSeed(Pool, ctl.seed, fail)
       IN  /\ InstallPool(r.pool)
           /\ ret' = Returned("update_seed", r.ok)
    /\ ctl' = Idle
    /\ UNCHANGED <<cfgVars, hashed, flagVars, slotVars, threads, block_template, workerVars>>

\* a set_thread_count that clears mining_ before its two tests
SetThreadCountStopsFirst(n) ==
    /\ IsIdle
    /\ mining' = FALSE
    /\ IF n = 0
       THEN /\ ret' = Returned("set_thread_count", FALSE)
            /\ UNCHANGED ctl
       ELSE IF n = num_threads
       THEN /\ ret' = Returned("set_thread_count", TRUE)
            /\ UNCHANGED ctl
       ELSE /\ ret' = NoRet
            /\ ctl' = [Begin("set_thread_count", IF mining THEN "join" ELSE "body")
                          EXCEPT !.n = n]
    /\ UNCHANGED <<poolVars, cfgVars, hashed, found, hash_count, slotVars, threads,
                   block_template, workerVars>>

\* Miner::set_thread_count: the zero test, the equality test, then stop() if mining
SetThreadCount(n) ==
    /\ IsIdle
    /\ IF n = 0
       THEN /\ ret' = Returned("set_thread_count", FALSE)
            /\ UNCHANGED <<mining, ctl>>
       ELSE IF n = num_threads
       THEN /\ ret' = Returned("set_thread_count", TRUE)
            /\ UNCHANGED <<mining, ctl>>
       ELSE /\ ret' = NoRet
            /\ mining' = FALSE
            /\ ctl' = [Begin("set_thread_count", IF mining THEN "join" ELSE "body")
                          EXCEPT !.n = n]
    /\ UNCHANGED <<poolVars, cfgVars, hashed, found, hash_count, slotVars, threads,
                   block_template, workerVars>>

SetThreadCountBody(fail) ==
    /\ ctl.pc = "body" /\ ctl.op = "set_thread_count"
    /\ fail \in StcFails(Pool, ctl.n)
    /\ LET r == DoSetThreadCount(Pool, ctl.n, fail)
       IN  /\ InstallPool(r.pool)
           /\ ret' = Returned("set_thread_count", r.ok)
    /\ ctl' = Idle
    /\ UNCHANGED <<cfgVars, hashed, flagVars, slotVars, threads, block_template, workerVars>>

\* every allocation that can return nullptr in some call
FailPoints ==
    {NoFail, [at |-> "cache", idx |-> 0], [at |-> "dataset", idx |-> 0]}
    \cup {[at |-> "node_cache", idx |-> k] : k \in Nodes}
    \cup {[at |-> "vm", idx |-> f] : f \in 0..(MaxPoolThreads - 1)}

\* The miner as the control loop drives it: one initialize at startup, then
\* sessions, seed updates and thread-count changes; allocations succeed.
Next ==
    \/ \E w \in Workers : WorkerGetVm(w) /\ UNCHANGED <<main, call>>
    \/ \E w \in Workers : WorkerLoop(w) /\ UNCHANGED <<main, call>>
    \/ \E w \in Workers : WorkerHash(w) /\ UNCHANGED <<main, call>>
    \/ \E w \in Workers : WorkerCount(w) /\ UNCHANGED <<main, call>>
    \/ \E w \in Workers : WorkerCas(w) /\ UNCHANGED <<main, call>>
    \/ \E w \in Workers : WorkerWriteNonce(w) /\ UNCHANGED <<main, call>>
    \/ \E w \in Workers : WorkerWriteHash(w) /\ UNCHANGED <<main, call>>
    \/ \E w \in Workers : WorkerWriteHeader(w) /\ UNCHANGED <<main, call>>
    \/ \E w \in Workers : WorkerWriteTemplate(w) /\ UNCHANGED <<main, call>>
    \/ \E w \in Workers : WorkerClearMining(w) /\ UNCHANGED <<main, call>>
    \/ Stop /\ UNCHANGED <<main, call>>
    \/ Join /\ UNCHANGED <<main, call>>
    \/ \E t \in Templates : t.seed_hash = current_seed_hash /\ StartMining(t) /\ UNCHANGED <<main, call>>
    \/ StartMiningReset /\ UNCHANGED <<main, call>>
    \/ StartMiningSpawn /\ UNCHANGED <<main, call>>
    \/ GetSolution /\ UNCHANGED <<main, call>>
    \/ GetSolutionRead /\ UNCHANGED <<main, call>>
    \/ IsMining /\ UNCHANGED <<main, call>>
    \/ GetHashCount /\ UNCHANGED <<main, call>>
    \/ \E s \in Seeds : current_seed_hash = Null /\ Initialize(s, NoFail) /\ UNCHANGED <<main, call>>
    \/ \E s \in Seeds \cup {BadSeed} : UpdateSeed(s) /\ UNCHANGED <<main, call>>
    \/ UpdateSeedBody(NoFail) /\ UNCHANGED <<main, call>>
    \/ \E n \in 0..MaxThreads : SetThreadCount(n) /\ UNCHANGED <<main, call>>
    \/ SetThreadCountBody(NoFail) /\ UNCHANGED <<main, call>>

Spec == Init /\ [][Next]_vars

\* Threads are scheduled and every randomx_calculate_hash returns: a worker that
\* can take a step takes it, and a join whose threads have returned returns.
Fairness ==
    /\ \A w \in Workers :
          WF_vars(/\ \/ WorkerGetVm(w) \/ WorkerLoop(w) \/ WorkerHash(w)
                     \/ WorkerCount(w)
                     \/ WorkerCas(w) \/ WorkerWriteNonce(w) \/ WorkerWriteHash(w)
                     \/ WorkerWriteHeader(w) \/ WorkerWriteTemplate(w)
                     \/ WorkerClearMining(w)
                  /\ UNCHANGED <<main, call>>)
    /\ WF_vars(Join /\ UNCHANGED <<main, call>>)
FairSpec == Init /\ [][Next]_vars /\ Fairness


\* The pool alone, with no session: any order of initialize, update_seed and
\* set_thread_count in which every call returns true, whatever allocation
\* outcome lets it.
PoolInit == Constructed(MaxPoolThreads) /\ call = NoCall
PoolNext ==
    \/ \E s \in Seeds : \E fail \in FailPoints : Initialize(s, fail) /\ ret'.ok /\ UNCHANGED <<main, call>>
    \/ \E s \in Seeds : UpdateSeed(s) /\ (ret'.op = "none" \/ ret'.ok) /\ UNCHANGED <<main, call>>
    \/ \E fail \in FailPoints : UpdateSeedBody(fail) /\ ret'.ok /\ UNCHANGED <<main, call>>
    \/ \E n \in 1..MaxPoolThreads : SetThreadCount(n) /\ UNCHANGED <<main, call>>
    \/ \E fail \in FailPoints : SetThreadCountBody(fail) /\ ret'.ok /\ UNCHANGED <<main, call>>
PoolSpec == PoolInit /\ [][PoolNext]_vars


\* ------------------------------------------------------------------ main
\* Miner::~Miner: stop(), then every VM, cache and the dataset are released
Destructor ==
    /\ IsIdle
    /\ mining' = FALSE
    /\ ctl' = Begin("destroy", "join")
    /\ ret' = NoRet
    /\ UNCHANGED <<poolVars, cfgVars, hashed, found, hash_count, slotVars, threads,
                   block_template, workerVars>>

Destroyed(P) ==
    LET gone == (UNION {RangeOf(P.numa_nodes[k].vms) : k \in Nodes}
                 \cup RangeOf(P.legacy_vms)) \ {NoVm}
    IN  [P EXCEPT
            !.numa_nodes = [k \in Nodes |-> [cache |-> Null, vms |-> <<>>]],
            !.legacy_vms = <<>>,
            !.legacy_cache = Null,
            !.dataset = Null,
            !.vm_heap = Destroy(P.vm_heap, gone)]

DestructorBody ==
    /\ ctl.pc = "body" /\ ctl.op = "destroy"
    /\ InstallPool(Destroyed(Pool))
    /\ ctl' = Idle
    /\ ret' = Returned("destroy", TRUE)
    /\ UNCHANGED <<cfgVars, hashed, flagVars, slotVars, threads, block_template, workerVars>>

\* the process runs: no uncaught exception has ended it
ProcessAlive == main.pc # "terminated"
MainAt(label) == ProcessAlive /\ main.pc = label /\ IsIdle
MainGoto(label) == main' = [main EXCEPT !.pc = label]

\* signal_handler: running = false
MainSignal ==
    /\ ProcessAlive /\ main.running /\ main.pc \notin {"startup", "exited"}
    /\ main' = [main EXCEPT !.running = FALSE]
    /\ UNCHANGED minerVars

\* the initial template is parsed and the miner initialized with its seed;
\* a failure is return 1, which runs the destructor
MainStartup(t, fail) ==
    /\ MainAt("startup")
    /\ Initialize(t.seed_hash, fail)
    /\ main' = IF ret'.ok THEN [main EXCEPT !.pc = "loop", !.seed = t.seed_hash]
                          ELSE [main EXCEPT !.pc = "done", !.status = 1]

\* parse_config, the first get_blockchain_info or the first get_block_template
\* fails: return 1 before the Miner is constructed
MainStartupFails ==
    /\ MainAt("startup")
    /\ main' = [main EXCEPT !.pc = "exited", !.status = 1]
    /\ UNCHANGED minerVars

\* while (running.load()) is false: the loop is left
MainLoopExit ==
    /\ MainAt("loop") /\ ~main.running
    /\ main' = [main EXCEPT !.pc = "done", !.status = 0]
    /\ UNCHANGED minerVars

\* while (running.load()) is true: the body runs
MainLoopTest ==
    /\ MainAt("loop") /\ main.running
    /\ MainGoto("fetch")
    /\ UNCHANGED minerVars

\* rpc.get_block_template fails: sleep and continue
MainRpcFailure ==
    /\ MainAt("fetch")
    /\ main' = [main EXCEPT !.pc = "loop", !.disconnected = TRUE]
    /\ UNCHANGED minerVars

\* parse_block_template throws std::runtime_error and main has no handler
MainParseThrows ==
    /\ MainAt("fetch")
    /\ MainGoto("terminated")
    /\ UNCHANGED minerVars

\* BlockTemplate block_template = parse_block_template(template_data)
MainTemplate(t) ==
    /\ MainAt("fetch")
    /\ main' = [main EXCEPT !.pc = "epoch", !.tmpl = t, !.changed = FALSE,
                            !.disconnected = FALSE]
    /\ UNCHANGED minerVars

\* the template's seed is main's current_seed_hash: start_mining at once
MainEpochSame ==
    /\ MainAt("epoch") /\ main.tmpl.seed_hash = main.seed
    /\ StartMining(main.tmpl)
    /\ main' = [main EXCEPT !.pc = "inner", !.failures = 0,
                            !.submitted = FALSE, !.mined = 0]

\* the seed changed: miner.update_seed(block_template.seed_hash)
MainEpochChange ==
    /\ MainAt("epoch") /\ main.tmpl.seed_hash # main.seed
    /\ UpdateSeed(main.tmpl.seed_hash)
    /\ MainGoto("epoch_ret")

\* update_seed returned true: the seed is recorded and mining starts
MainEpochDone ==
    /\ MainAt("epoch_ret") /\ ret.ok
    /\ StartMining(main.tmpl)
    /\ main' = [main EXCEPT !.pc = "inner", !.seed = main.tmpl.seed_hash,
                            !.failures = 0, !.submitted = FALSE, !.mined = 0]

\* update_seed returned false: return 1
MainEpochFailed ==
    /\ MainAt("epoch_ret") /\ ~ret.ok
    /\ main' = [main EXCEPT !.pc = "done", !.status = 1]
    /\ UNCHANGED minerVars

\* while (miner.is_mining() && running.load())
MainInnerTest ==
    /\ MainAt("inner")
    /\ MainGoto(IF mining /\ main.running THEN "iter" ELSE "after")
    /\ UNCHANGED minerVars

\* an iteration in which nothing happens but the status screen
MainSpin ==
    /\ MainAt("iter")
    /\ MainGoto("inner")
    /\ UNCHANGED minerVars

\* the T key: miner.stop(), then the new count is asked for
MainKeyT ==
    /\ MainAt("iter")
    /\ Stop
    /\ MainGoto("resize")

\* get_blockchain_info succeeded and shows no new block
MainCheckOk ==
    /\ MainAt("iter")
    /\ main' = [main EXCEPT !.pc = "inner", !.failures = 0]
    /\ UNCHANGED minerVars

\* a new block on the network: block_changed = true, miner.stop(), break
MainBlockChanged ==
    /\ MainAt("iter")
    /\ Stop
    /\ main' = [main EXCEPT !.pc = "after", !.changed = TRUE, !.failures = 0]

\* get_blockchain_info failed, for the first time in a row
MainCheckFailed ==
    /\ MainAt("iter") /\ main.failures + 1 < MaxRpcFailures
    /\ main' = [main EXCEPT !.pc = "inner", !.failures = @ + 1]
    /\ UNCHANGED minerVars

\* the inner loop left after max_rpc_failures failures without miner.stop()
MainRpcLostNoStop ==
    /\ MainAt("iter") /\ main.failures + 1 >= MaxRpcFailures
    /\ main' = [main EXCEPT !.pc = "after", !.failures = @ + 1]
    /\ UNCHANGED minerVars
\* get_blockchain_info failed max_rpc_failures times in a row: miner.stop(),
\* break
MainRpcLost ==
    /\ MainAt("iter") /\ main.failures + 1 >= MaxRpcFailures
    /\ Stop
    /\ main' = [main EXCEPT !.pc = "after", !.failures = @ + 1]

\* miner.set_thread_count(new_thread_count), its result only logged
MainResize(n) ==
    /\ MainAt("resize")
    /\ SetThreadCount(n)
    /\ MainGoto("after")

\* the user entered no positive count
MainResizeNone ==
    /\ MainAt("resize")
    /\ MainGoto("after")
    /\ UNCHANGED minerVars

\* if (!running.load()) miner.stop()
MainAfterStop ==
    /\ MainAt("after") /\ ~main.running
    /\ Stop
    /\ MainGoto("after_stop")

MainPastStop == \/ MainAt("after") /\ main.running
                \/ MainAt("after_stop")

\* if (block_changed) continue
MainSkipSolution ==
    /\ MainPastStop /\ main.changed
    /\ MainGoto("loop")
    /\ UNCHANGED minerVars

\* a loop that asks for the solution whatever ended the session
MainGetSolutionAlways ==
    /\ MainPastStop
    /\ GetSolution
    /\ MainGoto("solution")

\* miner.get_solution(...)
MainGetSolution ==
    /\ MainPastStop /\ ~main.changed
    /\ GetSolution
    /\ MainGoto("solution")

\* get_solution returned: with a solution the block is serialized for
\* submission; without one the loop is left if not running
MainSolution ==
    /\ MainAt("solution")
    /\ main' = IF ret.ok THEN [main EXCEPT !.pc = "submit"]
               ELSE IF ~main.running
               THEN [main EXCEPT !.pc = "done", !.status = 0]
               ELSE [main EXCEPT !.pc = "loop"]
    /\ UNCHANGED minerVars

\* a rejected block is submitted again
MainSubmitRetries ==
    /\ MainAt("submit")
    /\ \E accepted \in BOOLEAN :
          main' = [main EXCEPT !.pc = IF accepted THEN "loop" ELSE "submit",
                               !.submitted = TRUE,
                               !.mined = IF accepted THEN @ + 1 ELSE @]
    /\ UNCHANGED minerVars

\* rpc.submit_block(block_hex, result): blocks_mined++ if the node accepted.
\* submitted and mined are the calls and the increments since the session
\* began
MainSubmit ==
    /\ MainAt("submit")
    /\ \E accepted \in BOOLEAN :
          main' = [main EXCEPT !.pc = "loop", !.submitted = TRUE,
                               !.mined = IF accepted THEN @ + 1 ELSE @]
    /\ UNCHANGED minerVars

\* return from main: the miner is destroyed
MainReturn ==
    /\ MainAt("done")
    /\ Destructor
    /\ MainGoto("exited")

\* the control loop of main() driving the miner, allocations failing or not
MainNext ==
    \/ \E w \in Workers : ProcessAlive /\ WorkerGetVm(w) /\ UNCHANGED <<main, call>>
    \/ \E w \in Workers : ProcessAlive /\ WorkerLoop(w) /\ UNCHANGED <<main, call>>
    \/ \E w \in Workers : ProcessAlive /\ WorkerHash(w) /\ UNCHANGED <<main, call>>
    \/ \E w \in Workers : ProcessAlive /\ WorkerCount(w) /\ UNCHANGED <<main, call>>
    \/ \E w \in Workers : ProcessAlive /\ WorkerCas(w) /\ UNCHANGED <<main, call>>
    \/ \E w \in Workers : ProcessAlive /\ WorkerWriteNonce(w) /\ UNCHANGED <<main, call>>
    \/ \E w \in Workers : ProcessAlive /\ WorkerWriteHash(w) /\ UNCHANGED <<main, call>>
    \/ \E w \in Workers : ProcessAlive /\ WorkerWriteHeader(w) /\ UNCHANGED <<main, call>>
    \/ \E w \in Workers : ProcessAlive /\ WorkerWriteTemplate(w) /\ UNCHANGED <<main, call>>
    \/ \E w \in Workers : ProcessAlive /\ WorkerClearMining(w) /\ UNCHANGED <<main, call>>
    \/ ProcessAlive /\ Join /\ UNCHANGED <<main, call>>
    \/ ProcessAlive /\ StartMiningReset /\ UNCHANGED <<main, call>>
    \/ ProcessAlive /\ StartMiningSpawn /\ UNCHANGED <<main, call>>
    \/ ProcessAlive /\ GetSolutionRead /\ UNCHANGED <<main, call>>
    \/ \E fail \in FailPoints : ProcessAlive /\ UpdateSeedBody(fail) /\ UNCHANGED <<main, call>>
    \/ \E fail \in FailPoints : ProcessAlive /\ SetThreadCountBody(fail) /\ UNCHANGED <<main, call>>
    \/ ProcessAlive /\ DestructorBody /\ UNCHANGED <<main, call>>
    \/ MainSignal /\ UNCHANGED call
    \/ \E t \in Templates : \E fail \in FailPoints : MainStartup(t, fail) /\ UNCHANGED call
    \/ MainStartupFails /\ UNCHANGED call
    \/ MainLoopExit /\ UNCHANGED call
    \/ MainLoopTest /\ UNCHANGED call
    \/ MainRpcFailure /\ UNCHANGED call
    \/ MainParseThrows /\ UNCHANGED call
    \/ \E t \in Templates : MainTemplate(t) /\ UNCHANGED call
    \/ MainEpochSame /\ UNCHANGED call
    \/ MainEpochChange /\ UNCHANGED call
    \/ MainEpochDone /\ UNCHANGED call
    \/ MainEpochFailed /\ UNCHANGED call
    \/ MainInnerTest /\ UNCHANGED call
    \/ MainSpin /\ UNCHANGED call
    \/ MainKeyT /\ UNCHANGED call
    \/ MainBlockChanged /\ UNCHANGED call
    \/ MainCheckOk /\ UNCHANGED call
    \/ MainCheckFailed /\ UNCHANGED call
    \/ MainRpcLost /\ UNCHANGED call
    \/ \E n \in 1..MaxThreads : MainResize(n) /\ UNCHANGED call
    \/ MainResizeNone /\ UNCHANGED call
    \/ MainAfterStop /\ UNCHANGED call
    \/ MainSkipSolution /\ UNCHANGED call
    \/ MainGetSolution /\ UNCHANGED call
    \/ MainSolution /\ UNCHANGED call
    \/ MainSubmit /\ UNCHANGED call
    \/ MainReturn /\ UNCHANGED call
MainSpec == Init /\ [][MainNext]_vars

\* one step of the main thread, inside a Miner call or between two calls; the
\* signal is the environment's step
MainThread ==
    \/ ProcessAlive /\ (Join \/ StartMiningReset \/ StartMiningSpawn \/ GetSolutionRead
                         \/ DestructorBody) /\ UNCHANGED main
    \/ \E fail \in FailPoints :
          ProcessAlive /\ (UpdateSeedBody(fail) \/ SetThreadCountBody(fail)) /\ UNCHANGED main
    \/ \E t \in Templates : \E fail \in FailPoints : MainStartup(t, fail)
    \/ \E t \in Templates : MainTemplate(t)
    \/ \E n \in 1..MaxThreads : MainResize(n)
    \/ MainStartupFails \/ MainLoopExit \/ MainLoopTest \/ MainRpcFailure
    \/ MainParseThrows \/ MainEpochSame \/ MainEpochChange \/ MainEpochDone
    \/ MainEpochFailed \/ MainInnerTest \/ MainSpin \/ MainKeyT \/ MainBlockChanged
    \/ MainCheckOk \/ MainCheckFailed \/ MainRpcLost \/ MainResizeNone
    \/ MainAfterStop \/ MainSkipSolution \/ MainGetSolution \/ MainSolution
    \/ MainSubmit
    \/ MainReturn

\* The main thread and the workers are scheduled, every RPC and every
\* randomx_calculate_hash returns, and the user answers the thread-count prompt.
MainFairness ==
    /\ \A w \in Workers :
          WF_vars(/\ ProcessAlive
                  /\ \/ WorkerGetVm(w) \/ WorkerLoop(w) \/ WorkerHash(w)
                     \/ WorkerCount(w)
                     \/ WorkerCas(w) \/ WorkerWriteNonce(w) \/ WorkerWriteHash(w)
                     \/ WorkerWriteHeader(w) \/ WorkerWriteTemplate(w)
                     \/ WorkerClearMining(w)
                  /\ UNCHANGED <<main, call>>)
    /\ WF_vars(MainThread /\ UNCHANGED call)
MainFairSpec == Init /\ [][MainNext]_vars /\ MainFairness

\* ------------------------------------------------- the utilities, called
\* The free functions are examined one call at a time: Init draws the
\* arguments, the action is the call.

\* a string of n hex digits whose bytes differ from one another
HexString(n, k) == [i \in 1..n |-> HexDigits[((i * k) % 16) + 1]]
\* the hash strings a node reply may carry: HashHexLen characters or up to
\* LenSlack fewer or more, all hex digits or with one other character
BadPositions == {1, 2, HashHexLen - 1, HashHexLen}
HashStrings ==
    LET lens == (HashHexLen - LenSlack)..(HashHexLen + LenSlack)
    IN  {HexString(n, 13) : n \in lens}
            \cup UNION {{[HexString(n, 13) EXCEPT ![q] = "g"] :
                                q \in {r \in BadPositions : r <= n}} : n \in lens}
BitsStrings == {<<"1", "f", "0", "9", "d", "a", "a", "8">>,
                <<"2", "0", "7", "f", "f", "f", "f", "f">>,
                <<"0", "3", "1", "2", "3", "4">>,
                <<"1", "d", "g", "0">>,
                <<"g">>, <<>>}
AllMembers == {"version", "previousblockhash", "curtime", "bits", "height",
               "randomxseedheight", "randomxseedhash", "randomxnextseedhash",
               "target", "defaultroots", "defaultroots.merkleroot",
               "defaultroots.blockcommitmentshash", "blockcommitmentshash",
               "coinbasetxn", "coinbasetxn.data", "transactions"}
\* a well-formed reply of the node
BaseTemplate ==
    [members |-> AllMembers,
     value |-> [version |-> 67305985,
                previousblockhash |-> HexString(HashHexLen, 1),
                curtime |-> 1594497836,
                bits |-> <<"1", "f", "0", "9", "d", "a", "a", "8">>,
                height |-> 1583,
                randomxseedheight |-> 1536,
                randomxseedhash |-> HexString(HashHexLen, 3),
                randomxnextseedhash |-> HexString(HashHexLen, 5),
                target |-> <<"0", "0", "f", "f">>,
                defaultroots_merkleroot |-> HexString(HashHexLen, 7),
                defaultroots_blockcommitmentshash |-> HexString(HashHexLen, 9),
                blockcommitmentshash |-> HexString(HashHexLen, 11),
                coinbasetxn_data |-> <<"0", "1">>,
                transactions |-> <<>>]]
HashFields == {"previousblockhash", "randomxseedhash", "randomxnextseedhash",
               "defaultroots_merkleroot", "defaultroots_blockcommitmentshash",
               "blockcommitmentshash"}
\* the ways a reply differs from another in one field: a member (with the
\* members of it) is not there, or a string is another one
TemplateEdits ==
    {[kind |-> "remove", name |-> m, str |-> <<>>] : m \in AllMembers}
        \cup {[kind |-> "set", name |-> f, str |-> h] : f \in HashFields, h \in HashStrings}
        \cup {[kind |-> "set", name |-> "bits", str |-> b] : b \in BitsStrings}
Inside(object, name) ==
    /\ Len(name) > Len(object)
    /\ SubSeq(name, 1, Len(object) + 1) = object \o "."
ApplyEdit(template_data, e) ==
    IF e.kind = "remove"
    THEN [template_data EXCEPT
            !.members = {m \in @ : m # e.name /\ ~Inside(e.name, m)}]
    ELSE [template_data EXCEPT !.value[e.name] = e.str]
RECURSIVE TemplatesWithin(_)
TemplatesWithin(n) ==
    IF n = 0 THEN {BaseTemplate}
    ELSE LET T == TemplatesWithin(n - 1)
         IN  T \cup {ApplyEdit(t, e) : t \in T, e \in TemplateEdits}

\* the free functions use no Miner: one configuration of it stands by
Standalone == Constructed(1) /\ ~fast_mode /\ ~numa_available
ParseInit ==
    /\ Standalone
    /\ \E t \in TemplatesWithin(MaxEdits) :
            call = [fn |-> "parse_block_template", arg |-> t,
                    returned |-> FALSE, out |-> <<>>]
\* BlockTemplate bt = parse_block_template(template_data)
ParseBlockTemplate ==
    /\ call.fn = "parse_block_template" /\ ~call.returned
    /\ call' = [call EXCEPT !.returned = TRUE,
                            !.out = parse_block_template(call.arg)]
    /\ UNCHANGED <<minerVars, main>>
ParseNext == ParseBlockTemplate
ParseSpec == ParseInit /\ [][ParseNext]_vars

\* the 32-byte hashes and targets compared: at most MaxSetBytes bytes are not
\* zero; the top byte of a word stays below 128 (word values below 2^31)
ByteValues == {1, 127}
SetBytes(n) ==
    IF n = 0 THEN {Zeros(HashBytes)}
    ELSE IF n = 1
    THEN {[Zeros(HashBytes) EXCEPT ![i] = b] : i \in 0..(HashBytes - 1), b \in ByteValues}
    ELSE {[Zeros(HashBytes) EXCEPT ![i] = 1, ![j] = 1] :
                i \in 0..(HashBytes - 1), j \in 0..(HashBytes - 1)}
ComparedBytes == UNION {SetBytes(n) : n \in 0..MaxSetBytes}
CompareInit ==
    /\ Standalone
    /\ \E h \in ComparedBytes : \E t \in ComparedBytes :
            call = [fn |-> "hash_meets_target", arg |-> [hash |-> h, target |-> t],
                    returned |-> FALSE, out |-> FALSE]
\* utils::hash_meets_target(hash, target)
HashMeetsTarget ==
    /\ call.fn = "hash_meets_target" /\ ~call.returned
    /\ call' = [call EXCEPT
                  !.returned = TRUE,
                  !.out = hash_meets_target(LeWords(call.arg.hash),
                                            LeWords(call.arg.target))]
    /\ UNCHANGED <<minerVars, main>>
CompareNext == HashMeetsTarget
CompareSpec == CompareInit /\ [][CompareNext]_vars

\* the compact bits converted: every size byte up to MaxSize with mantissas
\* that have low, middle and high bytes and the sign bit 0x00800000 set or not
Mantissas == {0, 1, 255, 65280, 1193046, 645800, 8388607, 8388608, 8454143, 16711680}
CompactBits == {size * 16777216 + m : size \in 0..MaxSize, m \in Mantissas}
CompactInit ==
    /\ Standalone
    /\ \E b \in CompactBits :
            call = [fn |-> "compact_to_target", arg |-> b,
                    returned |-> FALSE, out |-> <<>>]
\* bt.target = utils::compact_to_target(bt.bits)
CompactToTarget ==
    /\ call.fn = "compact_to_target" /\ ~call.returned
    /\ call' = [call EXCEPT !.returned = TRUE, !.out = compact_to_target(call.arg)]
    /\ UNCHANGED <<minerVars, main>>
CompactNext == CompactToTarget
CompactSpec == CompactInit /\ [][CompactNext]_vars

\* ------------------------------------------ the helpers of the control loop
\* the values encoded: limbs at and around the limits of the four encodings
VarintValues ==
    {<<a, b, c, d>> : a \in {0, 1, 252, 253, 254, 255, 256, 4660, 65535},
                      b \in {0, 1, 22136, 65535},
                      c \in {0, 1, 65535},
                      d \in {0, 1, 39612, 65535}}
\* the blocks serialized: headers and solutions of the miner's sizes and of
\* others, transaction lists of up to 252 transactions
Ramp(n, from) == [i \in 0..(n - 1) |-> (from + 7 * i) % 256]
SerializedTxs == {<<>>, <<<<"a", "a">>>>, <<<<"a", "a">>, <<"b", "b", "c", "d">>>>,
                  [k \in 1..252 |-> <<"0", "0">>], <<<<"g", "0">>>>}
SerializedBlocks ==
    {[header |-> h, solution |-> sol, coinbase_hex |-> cb, txn_hex |-> txs] :
        h \in {Ramp(HeaderBytes, 1), Ramp(HeaderBytes, 100), Ramp(3, 9)},
        sol \in {Ramp(HashBytes, 5), Ramp(HashBytes, 200), Ramp(0, 0), Ramp(253, 1)},
        cb \in {<<"0", "1">>, <<"0", "a", "0", "b", "0", "c">>, <<>>},
        txs \in SerializedTxs}
\* the answers to submitblock
SubmitResponses ==
    {[called |-> FALSE, type |-> "none", str |-> ""]}
        \cup {[called |-> TRUE, type |-> t, str |-> ""] : t \in {"null", "number", "object", "bool"}}
        \cup {[called |-> TRUE, type |-> "string", str |-> x] :
                x \in {"duplicate", "inconclusive", "duplicate-inconclusive",
                       "duplicate-invalid", "rejected", "accepted", "",
                       "inconclusive-not-best-prevblk", "Duplicate"}}
Call(fn, arg) == [fn |-> fn, arg |-> arg, returned |-> FALSE, out |-> <<>>]

\* std::min(num_threads_, hardware_concurrency()), 1 when that is 0
InitThreadCount(n, hw) == IF Min({n, hw}) = 0 THEN 1 ELSE Min({n, hw})
\* every helper takes items_per_thread items, the remainder is dropped
InitRangeEven(item_count, init_threads, t) ==
    [start |-> t * (item_count \div init_threads),
     count |-> item_count \div init_threads]
\* start and count of helper t
InitRange(item_count, init_threads, t) ==
    LET items_per_thread == item_count \div init_threads
        remainder == item_count % init_threads
    IN  [start |-> t * items_per_thread,
         count |-> IF t = init_threads - 1 THEN items_per_thread + remainder
                   ELSE items_per_thread]
\* the dataset initialisation of a miner of n threads on hw hardware threads:
\* the helpers that have finished and how often each item was initialised
InitDatasetCalls ==
    {[fn |-> "init_dataset",
      arg |-> [num_threads |-> n, hardware |-> hw, item_count |-> c],
      returned |-> FALSE,
      out |-> [finished |-> {}, inits |-> [i \in 0..(c - 1) |-> 0]]] :
        n \in 1..MaxInitThreads, hw \in 0..MaxHardware, c \in 1..MaxItems}
Helpers == 0..(InitThreadCount(call.arg.num_threads, call.arg.hardware) - 1)

\* bit i of x, and x & ~(RANDOMX_SEEDHASH_EPOCH_BLOCKS - 1) bit by bit from
\* bit i up to the width of the heights
BitOf(x, i) == (x \div 2^i) % 2
RECURSIVE AndNotEpochMask(_, _)
AndNotEpochMask(x, i) ==
    IF i >= HeightBits THEN 0
    ELSE BitOf(x, i) * (1 - BitOf(EpochBlocks - 1, i)) * 2^i + AndNotEpochMask(x, i + 1)
\* a seed height without the lag
RandomX_SeedHeightNoLag(height) ==
    IF height <= EpochBlocks THEN 0 ELSE AndNotEpochMask(height - 1, 0)
\* RandomX_SeedHeight
RandomX_SeedHeight(height) ==
    IF height <= EpochBlocks + EpochLag THEN 0
    ELSE AndNotEpochMask(height - EpochLag - 1, 0)

\* only byte 0 is incremented: the carry is lost
IncrementNonceNoCarry(nonce) == [nonce EXCEPT ![0] = (@ + 1) % 256]
\* the loop over the bytes of the nonce from byte i on, with its carry flag
RECURSIVE IncrementFrom(_, _, _)
IncrementFrom(nonce, i, carry) ==
    IF i < NonceBytes /\ carry
    THEN IF nonce[i] = 255
         THEN IncrementFrom([nonce EXCEPT ![i] = 0], i + 1, TRUE)
         ELSE IncrementFrom([nonce EXCEPT ![i] = @ + 1], i + 1, FALSE)
    ELSE nonce
\* bool carry = true; for (int i = 0; i < 32 && carry; i++) ...
IncrementNonce(nonce) == IncrementFrom(nonce, 0, TRUE)
\* nonces: k bytes 0xFF from byte 0, then one byte b, then bytes hi
Nonces ==
    {[i \in 0..(NonceBytes - 1) |-> IF i < k THEN 255 ELSE IF i = k THEN b ELSE hi] :
        k \in 0..NonceBytes, b \in {0, 254, 255}, hi \in {0, 9, 255}}
HeaderBases == {[i \in 0..(HeaderBytes - 1) |-> (m * i + 1) % 256] : m \in {1, 7}}
\* a worker at its start, with the bytes /dev/urandom gives it, and a worker
\* in a session at the head of its loop with any nonce
WorkerNonceCalls ==
    {[fn |-> "worker_thread",
      arg |-> [header_base |-> h, urandom |-> r, fresh |-> f],
      returned |-> FALSE,
      out |-> [pc |-> IF f THEN "start" ELSE "loop",
               nonce |-> IF f THEN Zeros(NonceBytes) ELSE r,
               hash_input |-> [i \in 0..(HeaderBytes - 1) |->
                                  IF f \/ i >= NonceOffset THEN 0 ELSE h[i]],
               hashed |-> Zeros(HeaderBytes),
               count |-> 0]] :
        h \in HeaderBases, r \in Nonces, f \in BOOLEAN}

UtilInit ==
    /\ Standalone
    /\ \/ \E n \in VarintValues : call = Call("encode_varint", n)
       \/ \E b \in SerializedBlocks : call = Call("serialize_block", b)
       \/ \E r \in SubmitResponses : \E mined \in 0..MaxBlocks :
                call = Call("submit_block", [response |-> r, blocks_mined |-> mined])
       \/ call \in InitDatasetCalls
       \/ call \in WorkerNonceCalls
       \/ \E h \in 0..MaxHeight : call = Call("RandomX_SeedHeight", h)
\* result += encode_varint(n)
EncodeVarint ==
    /\ call.fn = "encode_varint" /\ ~call.returned
    /\ call' = [call EXCEPT !.returned = TRUE, !.out = encode_varint(call.arg)]
    /\ UNCHANGED <<minerVars, main>>
\* std::string block_hex = utils::serialize_block(...)
SerializeBlock ==
    /\ call.fn = "serialize_block" /\ ~call.returned
    /\ call' = [call EXCEPT
                  !.returned = TRUE,
                  !.out = IF SerializeThrows(call.arg.coinbase_hex, call.arg.txn_hex)
                          THEN [ok |-> FALSE, block_hex |-> <<>>]
                          ELSE [ok |-> TRUE,
                                block_hex |->
                                    serialize_block(call.arg.header, call.arg.solution,
                                                    call.arg.coinbase_hex,
                                                    call.arg.txn_hex)]]
    /\ UNCHANGED <<minerVars, main>>
\* if (rpc.submit_block(block_hex, result)) { blocks_mined++; ... }
SubmitBlock ==
    /\ call.fn = "submit_block" /\ ~call.returned
    /\ LET answer == submit_block(call.arg.response)
       IN  call' = [call EXCEPT
                      !.returned = TRUE,
                      !.out = [ok |-> answer.ok, result |-> answer.result,
                               blocks_mined |-> IF answer.ok
                                                THEN call.arg.blocks_mined + 1
                                                ELSE call.arg.blocks_mined]]
    /\ UNCHANGED <<minerVars, main>>
\* a helper thread runs randomx_init_dataset(dataset_, legacy_cache_, start, count)
InitDatasetHelper ==
    /\ call.fn = "init_dataset" /\ ~call.returned
    /\ \E t \in Helpers \ call.out.finished :
          LET r == InitRange(call.arg.item_count, Cardinality(Helpers), t)
          IN  call' = [call EXCEPT
                         !.out.finished = @ \cup {t},
                         !.out.inits = [i \in DOMAIN @ |->
                                           IF r.start <= i /\ i < r.start + r.count
                                           THEN @[i] + 1 ELSE @[i]]]
    /\ UNCHANGED <<minerVars, main>>
\* for (auto& t : init_threads_vec) t.join(): the VMs come after it
InitDatasetJoin ==
    /\ call.fn = "init_dataset" /\ ~call.returned
    /\ call.out.finished = Helpers
    /\ call' = [call EXCEPT !.returned = TRUE]
    /\ UNCHANGED <<minerVars, main>>
\* the nonce is read from /dev/urandom, bytes 0, 1, 30 and 31 are cleared and
\* the first 108 bytes of header_base are copied into hash_input
WorkerNonceStart ==
    /\ call.fn = "worker_thread" /\ ~call.returned /\ call.out.pc = "start"
    /\ call' = [call EXCEPT
                  !.out.pc = "loop",
                  !.out.nonce = [i \in 0..(NonceBytes - 1) |->
                                    IF i \in {0, 1, 30, 31} THEN 0
                                    ELSE call.arg.urandom[i]],
                  !.out.hash_input = [i \in 0..(HeaderBytes - 1) |->
                                         IF i < NonceOffset THEN call.arg.header_base[i]
                                         ELSE 0]]
    /\ UNCHANGED <<minerVars, main>>
\* one iteration: the nonce is copied to hash_input + 108, the 140 bytes are
\* hashed, and the nonce is incremented unless the hash met the target
WorkerNonceHash ==
    /\ call.fn = "worker_thread" /\ ~call.returned /\ call.out.pc = "loop"
    /\ call.out.count < MaxNonceSteps
    /\ \E met \in BOOLEAN :
          LET input == [i \in 0..(HeaderBytes - 1) |->
                           IF i < NonceOffset THEN call.out.hash_input[i]
                           ELSE call.out.nonce[i - NonceOffset]]
          IN  call' = [call EXCEPT
                         !.out.hash_input = input,
                         !.out.hashed = input,
                         !.out.count = @ + 1,
                         !.out.nonce = IF met THEN @ ELSE IncrementNonce(@),
                         !.out.pc = IF met THEN "won" ELSE "loop",
                         !.returned = met]
    /\ UNCHANGED <<minerVars, main>>
\* while (mining_.load() && !found_.load()) is false: the thread returns
WorkerNonceExit ==
    /\ call.fn = "worker_thread" /\ ~call.returned /\ call.out.pc = "loop"
    /\ call' = [call EXCEPT !.out.pc = "exited", !.returned = TRUE]
    /\ UNCHANGED <<minerVars, main>>
\* uint64_t seed_height = RandomX_SeedHeight(current_block_height)
SeedHeight ==
    /\ call.fn = "RandomX_SeedHeight" /\ ~call.returned
    /\ call' = [call EXCEPT !.returned = TRUE, !.out = RandomX_SeedHeight(call.arg)]
    /\ UNCHANGED <<minerVars, main>>
UtilNext ==
    \/ SeedHeight
    \/ WorkerNonceStart
    \/ WorkerNonceHash
    \/ WorkerNonceExit
    \/ InitDatasetHelper
    \/ InitDatasetJoin
    \/ EncodeVarint
    \/ SerializeBlock
    \/ SubmitBlock
UtilSpec == UtilInit /\ [][UtilNext]_vars

\* ------------------------------------------------------------------ claims
WinStages == {"w_nonce", "w_hash", "w_header", "w_template", "clear_mining"}
Winners == {w \in Workers : pc[w] \in WinStages}
ResetStep == ctl.pc = "body" /\ ctl.op = "start_mining" /\ ctl'.pc = "spawn"

\* C1: in a session at most one worker wins the compare-and-set and writes the
\* solution slot: a win needs found = false and sets it, found falls only when
\* no worker is alive, the slot changes only by the single winner's store (or
\* by start_mining's reset), and a worker that meets the target after the win
\* exits without touching the slot.
C1_SingleWinner ==
    [][ /\ Cardinality(Winners) <= 1
        /\ \A w \in Workers :
              (pc[w] = "cas" /\ pc'[w] = "w_nonce") => (~found /\ found' /\ Winners = {})
        /\ (~found /\ found') => \E w \in Workers : pc[w] = "cas" /\ pc'[w] = "w_nonce"
        /\ (found /\ ~found') => \A w \in Workers : ~Alive(w)
        /\ (slotVars' # slotVars) =>
              \/ ResetStep
              \/ \E w \in Winners : pc'[w] # pc[w]
        /\ \A w \in Workers :
              (pc[w] = "cas" /\ found /\ pc'[w] # pc[w]) =>
                  (pc'[w] = "exited" /\ slotVars' = slotVars)
      ]_vars
\* a second worker reaches the compare-and-set while the winner is writing
C1_Witness == \E w \in Workers : \E v \in Workers :
                  w # v /\ pc[w] \in WinStages /\ pc[v] = "cas"

\* the resources of the pool: caches, dataset and VMs
resourceVars == <<legacy_cache, dataset, legacy_vms, numa_nodes, vm_heap>>

\* C2: update_seed and set_thread_count destroy, re-initialize or re-create
\* VMs, caches and the dataset only when no worker thread is alive.
C2_PoolQuiescent ==
    [][ (ctl.op \in {"update_seed", "set_thread_count"} /\ resourceVars' # resourceVars)
            => \A w \in Workers : ~Alive(w) ]_vars

\* C3: a solution returned by get_solution is completely written: the winner has
\* passed all its stores, and the returned header, hash and template are the
\* slot's, full size and of the running session's template.
C3_NoPartialSolution ==
    (ret.op = "get_solution" /\ ret.ok) =>
        /\ Winners = {}
        /\ ret.header = solution_header /\ Len(ret.header) = 2
        /\ ret.hash = solution_hash /\ Len(ret.hash) = 2
        /\ solution_nonce = <<ret.header[2]>>
        /\ ret.tmpl = solution_template /\ ret.tmpl = block_template
\* get_solution returned a solution while another worker was still running
C3_Witness == ret.op = "get_solution" /\ ret.ok /\ \E w \in Workers : Alive(w)

C5_StopTerminates == (ctl.pc = "join") ~> (ctl.pc # "join")
\* a stop() is waiting for a worker that is inside a hash
C5_Witness == ctl.pc = "join" /\ ctl.op = "stop" /\ \E w \in Workers : pc[w] = "hash"

SessionEndedFound == found /\ ~mining /\ Winners = {}

\* C7: once a session has ended with found = true, nothing but start_mining
\* changes found or the slot, and every get_solution returns true with the slot.
C7_SolutionStable ==
    [][ (SessionEndedFound /\ ctl.op # "start_mining" /\ ctl'.op # "start_mining") =>
            /\ found'
            /\ slotVars' = slotVars
            /\ (ret'.op = "get_solution" /\ ret.op # "get_solution") =>
                    /\ ret'.ok
                    /\ ret'.header = solution_header
                    /\ ret'.hash = solution_hash
                    /\ ret'.tmpl = solution_template
      ]_vars
\* stop() was called after the solution was found and the slot is still there
C7_Witness == ret.op = "stop" /\ found /\ solution_header # <<>>

\* C8: a returned solution is valid for its session: the header is header_base
\* followed by the winning nonce, the hash is the RandomX hash of the header under
\* the session's seed, it meets the target, and the template is the session's.
C8_SolutionValid ==
    (ret.op = "get_solution" /\ ret.ok) =>
        /\ ret.tmpl = block_template
        /\ \E n \in 0..(NonceSpace - 1) :
              /\ ret.header = <<ret.tmpl.header_base, n>>
              /\ solution_nonce = <<n>>
        /\ ret.hash = RandomXHash(ret.tmpl.seed_hash, ret.header)
        /\ hash_meets_target(ret.hash, ret.tmpl.target)
\* a solution was returned that was found after a nonce increment
C8_Witness == ret.op = "get_solution" /\ ret.ok /\ hash_count > 1

\* initialize has run: it is the only operation that allocates legacy_cache_
PoolInitialized == legacy_cache # Null
\* the rank of thread i among the threads of its NUMA node
RankOnNode(i) ==
    Cardinality({t \in 0..(i - 1) : thread_to_node[t + 1] = thread_to_node[i + 1]})

C10_NoSharedVm ==
    (PoolInitialized /\ IsIdle) =>
        /\ \A i \in 0..(num_threads - 1) : \A j \in 0..(num_threads - 1) :
              i # j => GetVmForThread(Pool, i) # GetVmForThread(Pool, j)
        /\ (numa_available /\ ~fast_mode) =>
              \A i \in 0..(num_threads - 1) :
                  /\ thread_to_node[i + 1] \in Nodes
                  /\ RankOnNode(i) < Len(numa_nodes[thread_to_node[i + 1]].vms)
\* two threads share a NUMA node after the thread count was changed
C10_Witness ==
    /\ PoolInitialized /\ numa_available /\ ~fast_mode
    /\ ret.op = "initialize" /\ ret.ok
    /\ \E i \in 0..(num_threads - 1) : RankOnNode(i) > 0

\* a worker finishes a randomx_calculate_hash call
CompletesHash(w) == pc[w] = "hash" /\ pc'[w] # "hash"

\* C11: whenever main calls start_mining(t) the miner's seed is t.seed_hash,
\* every hash a worker computes is computed on its intact VM keyed to the seed
\* of its session's template, and the new session starts with hash_count = 0
\* and no worker of an earlier session alive.
C11_SessionSeed ==
    [][ /\ (ctl.op # "start_mining" /\ ctl'.op = "start_mining") =>
                ctl'.tmpl.seed_hash = current_seed_hash
        /\ \A w \in Workers :
              CompletesHash(w) => (VmIntact(w) /\ w_key[w] = block_template.seed_hash)
        /\ ResetStep => (hash_count' = 0 /\ \A w \in Workers : ~Alive(w))
      ]_vars

\* update_seed returns true at once: the call with the current seed
EqualSeedReturn ==
    ctl = Idle /\ ctl' = Idle /\ ret' # ret /\ ret'.op = "update_seed" /\ ret'.ok

\* C12: update_seed with the current seed returns true and changes nothing: no
\* pool resource, no flag, no worker, no session; and an update_seed that did
\* the work and returned true left its seed as the current seed, so the same
\* call again is that no-op.
C12_UpdateSeedIdempotent ==
    [][ /\ EqualSeedReturn =>
              UNCHANGED <<poolVars, cfgVars, hashed, flagVars, slotVars, threads,
                          block_template, workerVars>>
        /\ (ctl.op = "update_seed" /\ ctl.pc = "body" /\ ret'.ok) =>
              current_seed_hash' = ctl.seed
      ]_vars
\* update_seed with the current seed returned during a running session
C12_Witness ==
    /\ ret.op = "update_seed" /\ ret.ok /\ mining
    /\ \E w \in Workers : pc[w] = "hash"

\* the body of set_thread_count returns true
ResizeSucceeds == ctl.op = "set_thread_count" /\ ctl.pc = "body" /\ ret'.ok
\* what holds when it does: the count, the seed and one VM per worker id
Resized ==
    /\ ~mining'
    /\ num_threads' = ctl.n
    /\ current_seed_hash' = current_seed_hash
    /\ \A i \in 0..(ctl.n - 1) :
          LET vm == GetVmForThread(Pool', i)
          IN  /\ vm # NoVm
              /\ VmKey(vm_heap', dataset', vm) = current_seed_hash
              /\ \A j \in 0..(ctl.n - 1) : j # i => GetVmForThread(Pool', j) # vm
    /\ Cardinality({h \in Handles : vm_heap'[h] # "free"}) = ctl.n
\* a call during a running session stops it and joins its workers first
ResizeStopsSession ==
    /\ (ctl = Idle /\ ctl'.op = "set_thread_count" /\ mining) =>
            (~mining' /\ ctl'.pc = "join")
    /\ (ctl.op = "set_thread_count" /\ ctl.pc = "join" /\ ctl'.pc = "body") =>
            \A w \in Workers : ~Alive(w)'
\* the next start_mining spawns the workers 0..num_threads-1
SpawnsCount ==
    (ctl.pc = "spawn" /\ ctl'.pc = "idle") => threads' = 0..(num_threads - 1)

\* C13: a set_thread_count(n') that succeeds on a miner that has a current seed
\* stops a running session, and leaves num_threads = n', the seed unchanged and
\* exactly n' VMs, one per worker id below n', all keyed to that seed; the next
\* start_mining spawns n' workers.
C13_ResizeInitialized ==
    [][ /\ (ResizeSucceeds /\ current_seed_hash # Null) => Resized
        /\ ResizeStopsSession
        /\ SpawnsCount ]_vars
\* C13 as stated, for every set_thread_count that succeeds
C13_ResizeAlways ==
    [][ /\ ResizeSucceeds => Resized
        /\ ResizeStopsSession
        /\ SpawnsCount ]_vars
\* set_thread_count returned true after it stopped a session that was hashing
C13_Witness ==
    /\ ret.op = "set_thread_count" /\ ret.ok /\ current_seed_hash # Null
    /\ hash_count > 0 /\ ~found /\ num_threads = MaxThreads

\* no cache, no dataset and no VM is allocated
PoolReleased ==
    /\ legacy_cache = Null
    /\ dataset = Null
    /\ \A k \in Nodes : numa_nodes[k].cache = Null
    /\ \A h \in Handles : vm_heap[h] = "free"

\* C14: when initialize has failed, called directly or by set_thread_count, the
\* pool is in the released state.
C14_FailureReleases ==
    (ret.op \in {"initialize", "set_thread_count"} /\ ~ret.ok) => PoolReleased

\* C15: once the workers are joined (stop() has returned), hash_count is
\* exactly the number of hashes computed since the last start_mining and
\* get_hash_count returns it; while workers run the counter is never ahead of
\* the hashes and lags by the workers between a hash and its fetch_add; only
\* start_mining's reset lowers it.
C15_HashCountExact ==
    [][ /\ hashed - hash_count = Cardinality({w \in Workers : pc[w] = "count"})
        /\ (ret.op = "stop") => hash_count = hashed
        /\ (ret' # ret /\ ret'.op = "get_hash_count"
                /\ \A w \in Workers : ~Alive(w)) => ret'.val = hashed
        /\ (hash_count' < hash_count) => ResetStep
      ]_vars
\* get_hash_count after a stop() that joined workers which had computed hashes
C15_Witness ==
    /\ ret.op = "get_hash_count" /\ ret.val >= MaxHashes
    /\ threads = {} /\ \A w \in Workers : pc[w] = "none"

\* C16: a template that parse_block_template rejects is surfaced and the fetch
\* is retried: the control loop stays in the fetch with the process alive and
\* the miner untouched, and no session is started from the rejected template.
C16_TemplateErrorRetried ==
    [][ (MainAt("fetch") /\ main.running) =>
            /\ main'.pc \in {"fetch", "loop", "epoch"}
            /\ (main'.pc = "epoch") => main'.tmpl \in Templates ]_vars

\* exactly 64 hex characters
Is64Hex(str) == Len(str) = 64 /\ \A i \in 1..Len(str) : IsHex(str[i])
Parsed == call.fn = "parse_block_template" /\ call.returned
\* the blockcommitmentshash of a reply: the one in defaultroots, else top-level
CommitmentsOf(td) ==
    IF IsMemberOf(td, "defaultroots", "blockcommitmentshash")
    THEN td.value.defaultroots_blockcommitmentshash
    ELSE td.value.blockcommitmentshash
RequiredMissing(td) ==
    \/ \E m \in {"version", "previousblockhash", "curtime", "bits", "height",
                 "randomxseedheight", "randomxseedhash"} : ~isMember(td, m)
    \/ ~IsMemberOf(td, "defaultroots", "merkleroot")
    \/ /\ ~IsMemberOf(td, "defaultroots", "blockcommitmentshash")
       /\ ~isMember(td, "blockcommitmentshash")
    \/ ~IsMemberOf(td, "coinbasetxn", "data")
HashMalformed(td) ==
    \/ ~Is64Hex(td.value.previousblockhash)
    \/ ~Is64Hex(td.value.defaultroots_merkleroot)
    \/ ~Is64Hex(CommitmentsOf(td))
    \/ ~Is64Hex(td.value.randomxseedhash)
\* missing required fields are refused
MissingRefused == (Parsed /\ RequiredMissing(call.arg)) => ~call.out.ok
\* a reply with every required field and well-formed strings is accepted,
\* whichever of randomxnextseedhash, target and transactions it lacks
OptionalMayLack ==
    (/\ Parsed /\ ~RequiredMissing(call.arg) /\ ~HashMalformed(call.arg)
     /\ ~StoulThrows(call.arg.value.bits)
     /\ (isMember(call.arg, "randomxnextseedhash") =>
            Is64Hex(call.arg.value.randomxnextseedhash))) => call.out.ok

\* C17: parse_block_template produces no BlockTemplate when a required field is
\* missing or when previousblockhash, merkleroot, blockcommitmentshash or
\* randomxseedhash is not exactly 64 hex characters; it produces one when only
\* optional fields are missing.
C17_RejectsMalformed ==
    /\ MissingRefused
    /\ (Parsed /\ ~RequiredMissing(call.arg) /\ HashMalformed(call.arg))
            => ~call.out.ok
    /\ OptionalMayLack

Accepted == Parsed /\ call.out.ok
Slice(v, from, n) == [i \in 0..(n - 1) |-> v[from + i]]
\* byte j of a string of hex characters, decoded two characters to the byte
DecodedByte(str, j) == 16 * HexVal(str[2 * j + 1]) + HexVal(str[2 * j + 2])
AllHex(str) == \A i \in 1..Len(str) : IsHex(str[i])
\* bytes [from, from + 32) of the header are the hash string decoded by
\* hex_to_bytes and reversed; for 64 hex characters, byte j is pair 31 - j
ReversedAt(header, from, str) ==
    /\ Slice(header, from, 32) = Reverse(hex_to_bytes(str))
    /\ Is64Hex(str) => \A j \in 0..31 : header[from + j] = DecodedByte(str, 31 - j)

\* C18: an accepted template has a header_base of 140 bytes: little-endian
\* version, the reversed bytes of previousblockhash, merkleroot and
\* blockcommitmentshash, little-endian curtime, little-endian bits (the bits
\* string read as a number, most significant digit first), 32 zero bytes; its
\* seed_hash is the decoded randomxseedhash, not reversed.
C18_HeaderLayout ==
    Accepted =>
        LET v == call.arg.value
            bt == call.out.bt
            header == bt.header_base
        IN  /\ DOMAIN header = 0..139
            /\ \A i \in 0..139 : header[i] \in 0..255
            /\ read_le32(header, 0) = v.version
            /\ ReversedAt(header, 4, v.previousblockhash)
            /\ ReversedAt(header, 36, v.defaultroots_merkleroot)
            /\ ReversedAt(header, 68, CommitmentsOf(call.arg))
            /\ read_le32(header, 100) = v.curtime
            /\ read_le32(header, 104) = bt.bits
            /\ AllHex(v.bits) => bt.bits = HexNumber(v.bits, Len(v.bits))
            /\ \A i \in 108..139 : header[i] = 0
            /\ bt.seed_hash = hex_to_bytes(v.randomxseedhash)
            /\ Is64Hex(v.randomxseedhash) =>
                    \A j \in 0..31 : bt.seed_hash[j] = DecodedByte(v.randomxseedhash, j)
\* the well-formed reply parsed: version 0x04030201 gives bytes 01 02 03 04,
\* bits "1f09daa8" gives a8 da 09 1f, previousblockhash "1234...ef0" ends the
\* header's hash with 0x12, randomxseedhash "369c..." starts seed_hash with 0x36
C18_Witness ==
    /\ Accepted /\ ~HashMalformed(call.arg)
    /\ Slice(call.out.bt.header_base, 0, 4) = [i \in 0..3 |-> i + 1]
    /\ call.out.bt.header_base[4] = 240 /\ call.out.bt.header_base[35] = 18
    /\ call.out.bt.header_base[104] = 168 /\ call.out.bt.header_base[105] = 218
    /\ call.out.bt.header_base[106] = 9 /\ call.out.bt.header_base[107] = 31
    /\ call.out.bt.seed_hash[0] = 54

Compared == call.fn = "hash_meets_target" /\ call.returned
\* h <= t for the numbers whose base-256 digits, least significant first, are
\* the bytes of h and of t
LeLessEq(h, t) ==
    \/ h = t
    \/ \E i \in DOMAIN h : h[i] < t[i] /\ \A j \in DOMAIN h : j > i => h[j] = t[j]

\* C19: hash_meets_target(h, t) is true exactly when h <= t as 256-bit
\* little-endian numbers: true for h = t, and otherwise decided by the most
\* significant 32-bit word in which h and t differ.
C19_MeetsIffLessEq ==
    Compared =>
        LET h == call.arg.hash
            t == call.arg.target
            differ == {w \in 1..8 : LeWords(h)[w] # LeWords(t)[w]}
        IN  /\ call.out = LeLessEq(h, t)
            /\ h = t => call.out
            /\ h # t => \E w \in differ :
                            /\ \A x \in differ : x <= w
                            /\ call.out = (LeWords(h)[w] < LeWords(t)[w])
\* a hash equal to its target, with a byte set in the lowest and in the highest
\* word, was compared and accepted
C19_Witness ==
    /\ Compared /\ call.out /\ call.arg.hash = call.arg.target
    /\ call.arg.hash[0] = 1 /\ call.arg.hash[31] = 1

Converted == call.fn = "compact_to_target" /\ call.returned
\* the three bytes of the target from position at on, read as a number
ThreeBytes(target, at) ==
    target[at] + 256 * target[at + 1] + 65536 * target[at + 2]

\* C20: with size = bits >> 24 and mantissa = bits & 0x007fffff, the 32-byte
\* little-endian target is mantissa >> 8*(3-size) when size <= 3,
\* mantissa * 256^(size-3) when 3 < size <= 32 (the mantissa's three bytes at
\* size-3, size-2, size-1 and zero elsewhere), and zero when size > 32; for
\* 0x1f09daa8 the bytes 28, 29, 30 are a8, da, 09.
C20_CompactToTarget ==
    Converted =>
        LET size == call.arg \div 16777216
            mantissa == call.arg % 8388608
            target == call.out
        IN  /\ DOMAIN target = 0..31
            /\ \A i \in 0..31 : target[i] \in 0..255
            /\ size <= 3 =>
                    /\ ThreeBytes(target, 0) = mantissa \div (2 ^ (8 * (3 - size)))
                    /\ \A i \in 3..31 : target[i] = 0
            /\ (3 < size /\ size <= 32) =>
                    /\ ThreeBytes(target, size - 3) = mantissa
                    /\ \A i \in 0..31 : (i < size - 3 \/ i > size - 1) => target[i] = 0
            /\ size > 32 => \A i \in 0..31 : target[i] = 0
            /\ call.arg = 520739496 =>
                    target[28] = 168 /\ target[29] = 218 /\ target[30] = 9
\* 0x1f09daa8 was converted: a8, da, 09 at 28, 29, 30
C20_Witness ==
    /\ Converted /\ call.arg = 520739496
    /\ call.out[28] = 168 /\ call.out[29] = 218 /\ call.out[30] = 9
    /\ call.out[31] = 0 /\ call.out[27] = 0

\* the compact values examined that are above bits and have its size byte
AboveInSize(bits) ==
    {b \in CompactBits : b > bits /\ b \div 16777216 = bits \div 16777216}
LeLess(h, t) == LeLessEq(h, t) /\ h # t

Serialized == call.fn = "serialize_block" /\ call.returned /\ call.out.ok
\* Bitcoin's compact size of a number below 2^31
CompactSize(n) ==
    IF n < 253 THEN <<n>>
    ELSE IF n <= 65535 THEN <<253, n % 256, n \div 256>>
    ELSE <<254, n % 256, (n \div 256) % 256, (n \div 65536) % 256, n \div 16777216>>
\* the bytes a string of hex characters stands for
HexBytes(str) == [j \in 1..(Len(str) \div 2) |-> DecodedByte(str, j - 1)]

\* C22: the block serialize_block returns is, decoded from hex, the header,
\* the compact size of the solution, the solution, the compact size of 1 + the
\* number of other transactions, the coinbase and the other transactions in
\* order; with a 140-byte header and a 32-byte solution byte 140 is 0x20 and
\* the solution follows it.
C22_SerializedBytes ==
    Serialized =>
        LET a == call.arg
            block == HexBytes(call.out.block_hex)
            before == Cardinality(DOMAIN a.header)
            sol == Cardinality(DOMAIN a.solution)
        IN  /\ Len(call.out.block_hex) = 2 * Len(block)
            /\ AllHex(call.out.block_hex)
            /\ block = AsSeq(a.header) \o CompactSize(sol) \o AsSeq(a.solution)
                        \o CompactSize(1 + Len(a.txn_hex))
                        \o HexBytes(a.coinbase_hex)
                        \o TxBytes(a.txn_hex, 1, Len(a.txn_hex))
            /\ (before = 140 /\ sol = 32) =>
                    /\ \A i \in 0..139 : block[i + 1] = a.header[i]
                    /\ block[141] = 32
                    /\ \A i \in 0..31 : block[142 + i] = a.solution[i]
\* a block of a 140-byte header, a 32-byte solution and two other
\* transactions: "20" follows the header, the count is 3, "bbcd" ends the block
C22_Witness ==
    /\ Serialized /\ Len(call.arg.txn_hex) = 2
    /\ Cardinality(DOMAIN call.arg.header) = 140
    /\ Cardinality(DOMAIN call.arg.solution) = 32
    /\ SubSeq(call.out.block_hex, 281, 282) = <<"2", "0">>
    /\ SubSeq(call.out.block_hex, 347, 348) = <<"0", "3">>
    /\ SubSeq(call.out.block_hex, Len(call.out.block_hex) - 3,
              Len(call.out.block_hex)) = <<"b", "b", "c", "d">>

Encoded == call.fn = "encode_varint" /\ call.returned
\* the value a compact size stands for, as limbs
VarintValue(e) ==
    IF e[1] < 253 THEN <<e[1], 0, 0, 0>>
    ELSE IF e[1] = 253 THEN <<e[2] + 256 * e[3], 0, 0, 0>>
    ELSE IF e[1] = 254 THEN <<e[2] + 256 * e[3], e[4] + 256 * e[5], 0, 0>>
    ELSE <<e[2] + 256 * e[3], e[4] + 256 * e[5], e[6] + 256 * e[7],
           e[8] + 256 * e[9]>>

\* C23: encode_varint(n) is one byte n below 0xFD, 0xFD and 2 little-endian
\* bytes up to 0xFFFF, 0xFE and 4 bytes up to 0xFFFFFFFF, 0xFF and 8 bytes
\* above; it decodes back to n and no other value has the same encoding.
C23_CompactSize ==
    Encoded =>
        LET n == call.arg
            e == call.out
            high == IF n[4] # 0 THEN 4 ELSE IF n[3] # 0 THEN 3
                    ELSE IF n[2] # 0 THEN 2 ELSE 1
        IN  /\ \A i \in 1..Len(e) : e[i] \in 0..255
            /\ (high = 1 /\ n[1] < 253) => e = <<n[1]>>
            /\ (high = 1 /\ n[1] >= 253) => Len(e) = 3 /\ e[1] = 253
            /\ high = 2 => Len(e) = 5 /\ e[1] = 254
            /\ high > 2 => Len(e) = 9 /\ e[1] = 255
            /\ VarintValue(e) = n
            /\ \A m \in VarintValues : encode_varint(m) = e => m = n
\* a value above 0xFFFFFFFF was encoded in nine bytes
C23_Witness ==
    /\ Encoded /\ call.arg = <<4660, 22136, 65535, 39612>>
    /\ call.out = <<255, 52, 18, 120, 86, 255, 255, 188, 154>>

Submitted == call.fn = "submit_block" /\ call.returned
\* C24: submit_block succeeds exactly when the RPC call succeeded and its
\* result is null or one of "duplicate", "inconclusive",
\* "duplicate-inconclusive"; blocks_mined grows by one on success and not
\* otherwise.
C24_SubmitSuccess ==
    Submitted =>
        LET r == call.arg.response
        IN  /\ call.out.ok <=>
                    /\ r.called
                    /\ \/ r.type = "null"
                       \/ r.type = "string" /\ r.str \in {"duplicate", "inconclusive",
                                                          "duplicate-inconclusive"}
            /\ call.out.blocks_mined =
                    call.arg.blocks_mined + (IF call.out.ok THEN 1 ELSE 0)
\* "duplicate-inconclusive" counted as a mined block, "rejected" not
C24_Witness ==
    /\ Submitted /\ call.arg.response.str = "duplicate-inconclusive"
    /\ call.out.ok /\ call.out.blocks_mined = MaxBlocks + 1

\* a session starts: start_mining sets mining_
SessionStarts == ~mining /\ mining'
ConnectionLost == main.failures >= MaxRpcFailures

\* C25: a session goes on only with fewer than two consecutive failed block
\* checks; the second one stops the session and leaves the inner loop, with
\* every worker joined when stop() has returned; from then on no session
\* starts before a getblocktemplate succeeded, and a failed getblocktemplate
\* leaves the loop at the fetch, disconnected, with the miner untouched.
C25_RpcFailures ==
    [][ /\ main'.pc \in {"inner", "iter"} => ~ConnectionLost'
        /\ (~ConnectionLost /\ ConnectionLost') =>
                /\ main.failures = MaxRpcFailures - 1 /\ main.pc = "iter"
                /\ main'.pc = "after" /\ ~mining' /\ ctl'.op = "stop"
        /\ (ConnectionLost' /\ main'.pc = "after" /\ ctl' = Idle) =>
                \A w \in Workers : ~Alive(w)'
        /\ (ConnectionLost /\ SessionStarts) =>
                main.pc \in {"epoch", "epoch_ret"} /\ ~main.disconnected
        /\ (main'.pc = "epoch" /\ main.pc # "epoch") =>
                main.pc = "fetch" /\ ~main'.disconnected
        /\ (main.pc = "fetch" /\ main'.disconnected /\ ~main.disconnected) =>
                main'.pc = "loop" /\ UNCHANGED minerVars
      ]_vars
\* after a session that hashed was stopped by the second failure the loop is
\* at the fetch, disconnected, with no worker left
C25_Witness ==
    /\ ConnectionLost /\ main.pc = "fetch" /\ main.disconnected
    /\ hashed > 0 /\ ~mining /\ \A w \in Workers : ~Alive(w)

\* the process has returned from main with this status, no worker left
ExitedWith(status) ==
    /\ main.pc = "exited" /\ main.status = status
    /\ ~mining /\ threads = {} /\ \A w \in Workers : ~Alive(w)

\* main is inside while (running.load()) or at its test
InLoop == main.pc \notin {"startup", "done", "exited", "terminated"}

\* C26: once a signal has cleared running in the control loop, the session is
\* stopped, every worker is joined, the loop is left and main returns: with
\* status 0, or with status 1 when update_seed failed in the meantime.
C26_ShutdownExits == (InLoop /\ ~main.running) ~> (ExitedWith(0) \/ ExitedWith(1))

\* the number of threads the table places on a node
OnNode(node) == Cardinality({i \in 0..(num_threads - 1) : thread_to_node[i + 1] = node})

\* C27: with NUMA, thread i is on node i mod node_count and pinned to the CPU
\* of that node at index (rank of i among the node's threads) mod (the node's
\* CPU count); the threads per node differ by at most one; and the tables are
\* the constructor's tables for the current thread count, also after
\* set_thread_count recomputed them.
C27_NumaTables ==
    (numa_available /\ IsIdle) =>
        /\ Len(thread_to_node) = num_threads /\ Len(thread_to_cpu) = num_threads
        /\ \A i \in 0..(num_threads - 1) :
              LET node == i % NumNodes
                  cpu_ids == CpuIds(node)
              IN  /\ thread_to_node[i + 1] = node
                  /\ thread_to_cpu[i + 1] = cpu_ids[(RankOnNode(i) % Len(cpu_ids)) + 1]
        /\ \A a \in Nodes : \A b \in Nodes : OnNode(a) - OnNode(b) <= 1
        /\ thread_to_node = DistributeNodes(num_threads)
        /\ thread_to_cpu = DistributeCpus(num_threads)
\* set_thread_count grew the pool and the third thread wraps around to the CPU
\* of the first on a node of one CPU
C27_Witness ==
    /\ numa_available /\ ret.op = "set_thread_count" /\ ret.ok /\ IsIdle
    /\ num_threads = MaxPoolThreads
    /\ thread_to_node[3] = thread_to_node[1] /\ thread_to_cpu[3] = thread_to_cpu[1]
    /\ Len(CpuIds(1)) > 1

InitDataset == call.fn = "init_dataset"
\* the items helper t is given
ItemsOf(t) ==
    LET r == InitRange(call.arg.item_count, Cardinality(Helpers), t)
    IN  r.start..(r.start + r.count - 1)

\* C28: the dataset is initialised by max(1, min(num_threads,
\* hardware_concurrency)) helpers whose ranges are contiguous from item 0,
\* pairwise disjoint and cover [0, item_count) exactly once, the last one
\* taking the remainder; no item is initialised twice, and when the joins have
\* returned, before any VM is created or rebound, every helper has finished
\* and every item was initialised once.
C28_DatasetRanges ==
    InitDataset =>
        LET n == call.arg.num_threads
            hw == call.arg.hardware
            c == call.arg.item_count
            k == Cardinality(Helpers)
        IN  /\ k = (IF n <= hw THEN n ELSE IF hw >= 1 THEN hw ELSE 1)
            /\ \A t \in Helpers :
                  ItemsOf(t) = {i \in 0..(c - 1) :
                                   /\ t * (c \div k) <= i
                                   /\ (t < k - 1) => i < (t + 1) * (c \div k)}
            /\ \A t \in Helpers : \A u \in Helpers :
                  t # u => ItemsOf(t) \cap ItemsOf(u) = {}
            /\ UNION {ItemsOf(t) : t \in Helpers} = 0..(c - 1)
            /\ \A i \in 0..(c - 1) : call.out.inits[i] <= 1
            /\ call.returned =>
                  /\ call.out.finished = Helpers
                  /\ \A i \in 0..(c - 1) : call.out.inits[i] = 1
\* three helpers were joined and the last one took a remainder of two items
C28_Witness ==
    /\ InitDataset /\ call.returned
    /\ Cardinality(Helpers) = 3 /\ call.arg.item_count = 5
    /\ Cardinality(ItemsOf(2)) = 3

\* the 16-bit word j of a nonce and the carry that reaches it when 1 is added
Limb(nonce, j) == nonce[2 * j] + 256 * nonce[2 * j + 1]
RECURSIVE CarryInto(_, _)
CarryInto(nonce, j) ==
    IF j = 0 THEN 1 ELSE (Limb(nonce, j - 1) + CarryInto(nonce, j - 1)) \div 65536
\* (nonce + 1) mod 2^256, little-endian, by 16-bit words
PlusOne(nonce) ==
    [i \in 0..(NonceBytes - 1) |->
        LET word == (Limb(nonce, i \div 2) + CarryInto(nonce, i \div 2)) % 65536
        IN  IF i % 2 = 0 THEN word % 256 ELSE word \div 256]
InWorker == call.fn = "worker_thread"
HashStep == InWorker /\ call'.out.count = call.out.count + 1

\* C29: a worker's nonce starts with bytes 0, 1, 30 and 31 zero; after a hash
\* that misses the target the nonce is (nonce + 1) mod 2^256 little-endian;
\* the bytes hashed at 108..139 are the nonce of that iteration, and bytes
\* 0..107 of the hashed input are the header's, the same for every hash.
C29_NonceBytes ==
    [][ /\ (InWorker /\ call.out.pc = "start") =>
              /\ \A i \in {0, 1, 30, 31} : call'.out.nonce[i] = 0
              /\ \A i \in 2..29 : call'.out.nonce[i] = call.arg.urandom[i]
        /\ HashStep =>
              /\ \A i \in 0..(NonceBytes - 1) :
                    call'.out.hashed[NonceOffset + i] = call.out.nonce[i]
              /\ \A i \in 0..(NonceOffset - 1) :
                    call'.out.hashed[i] = call.arg.header_base[i]
              /\ call'.out.nonce = IF call'.returned THEN call.out.nonce
                                   ELSE PlusOne(call.out.nonce)
      ]_vars
\* the nonce of all 0xFF bytes was hashed and wrapped to zero
C29_Witness ==
    /\ InWorker /\ call.out.count = 1 /\ ~call.returned
    /\ \A i \in 0..(NonceBytes - 1) :
          call.out.hashed[NonceOffset + i] = 255 /\ call.out.nonce[i] = 0

SeedHeightOf == call.fn = "RandomX_SeedHeight" /\ call.returned

\* C30: RandomX_SeedHeight(h) is 0 for h <= 2144 and h - 97 with its low 11
\* bits cleared above; it is a multiple of 2048, at most h - 97 when h > 2144,
\* and it does not decrease when the height grows (from each height to the
\* next, for every height).
C30_SeedHeight ==
    SeedHeightOf =>
        LET h == call.arg
            seed_height == call.out
        IN  /\ h <= 2144 => seed_height = 0
            /\ h > 2144 => /\ seed_height = (h - 97) - ((h - 97) % 2048)
                           /\ seed_height <= h - 97
                           /\ h - 97 - seed_height < 2048
            /\ seed_height % 2048 = 0
            /\ h > 0 => RandomX_SeedHeight(h - 1) <= seed_height
\* the first height of the third epoch: 4193 - 97 = 4096
C30_Witness == SeedHeightOf /\ call.arg = 4193 /\ call.out = 4096

\* workers inside randomx_calculate_hash or between it and the fetch_add
InHash == {w \in Workers : pc[w] \in {"hash", "count"}}

\* C31: with mining_ false no worker starts a hash; mining_ rises again only
\* when no worker is alive; and while it is false the workers still in a hash
\* only finish it, each adding one to hash_count: the count grows by at most
\* the number of workers after the flag fell.
C31_BoundedCancellation ==
    [][ /\ \A w \in Workers : (pc[w] # "hash" /\ pc'[w] = "hash") => mining
        /\ (~mining /\ mining') => \A w \in Workers : ~Alive(w)
        /\ (~mining /\ ~mining') =>
              /\ InHash' \subseteq InHash
              /\ hash_count' + Cardinality(InHash') = hash_count + Cardinality(InHash)
              /\ Cardinality(InHash) <= Cardinality(threads)
      ]_vars
\* stop() waits in its join for a worker that finishes the hash it was in
C31_Witness ==
    /\ ~mining /\ ~found /\ ctl.op = "stop" /\ ctl.pc = "join"
    /\ hash_count > 0 /\ \E w \in Workers : pc[w] = "hash"

\* the worker has a read of its block_template reference ahead: header_base
\* at its start, target after the hash, the whole template when it has won
ReadsTemplate(w) ==
    \/ pc[w] \in {"spawned", "hash", "count", "w_nonce", "w_hash", "w_header",
                  "w_template"}
    \/ pc[w] = "cas" /\ ~found
\* main is outside the loop body that holds the session's BlockTemplate
TemplateDestroyed == main.pc \in {"loop", "fetch", "epoch", "epoch_ret", "done", "exited"}

\* C32: when the control loop has left the iteration whose block_template the
\* workers hold by reference, no worker still has a read of it ahead.
C32_TemplateOutlivesWorkers ==
    TemplateDestroyed => \A w \in Workers : ~ReadsTemplate(w)

\* start_mining has returned to the control loop, which polls is_mining()
SessionPolled == main.pc \in {"inner", "iter"} /\ ctl = Idle

\* C33: when start_mining has returned and is_mining() is true, a worker of
\* the session is alive, hashing or about to hash.
C33_NoZombieSession ==
    (SessionPolled /\ mining) => \E w \in threads : Alive(w)

\* update_seed has just returned true
SeedUpdated == ret.op = "update_seed" /\ ret.ok /\ ctl = Idle

\* C34: when update_seed has returned true the pool is initialized and every
\* worker index below num_threads has a live VM keyed to the current seed.
C34_UpdateSeedSuccess ==
    SeedUpdated =>
        /\ PoolInitialized
        /\ \A i \in 0..(num_threads - 1) :
              LET vm == GetVmForThread(Pool, i)
              IN  /\ vm # NoVm
                  /\ vm_heap[vm] # "free"
                  /\ VmKey(vm_heap, dataset, vm) = current_seed_hash

\* everything of the miner but the value the call returned
MinerUntouched ==
    UNCHANGED <<poolVars, cfgVars, flagVars, slotVars, threads, block_template,
                workerVars, ctl, hashed>>

\* C35: update_seed with a seed that is not 32 bytes long returns false and
\* changes nothing: seed, caches, dataset, VMs, flags, threads and workers are
\* as before, and a running session goes on.
C35_BadSeedRefused ==
    [][ UpdateSeed(BadSeed) =>
            /\ SeedSize(BadSeed) # SeedBytes
            /\ ret' = Returned("update_seed", FALSE)
            /\ MinerUntouched ]_vars

\* C36: set_thread_count(0) returns false and set_thread_count(num_threads)
\* returns true, and neither changes anything: thread count, seed, caches,
\* dataset, VMs, NUMA tables, flags, threads and workers are as before, and a
\* running session goes on.
C36_ResizeNoOp ==
    [][ \A n \in {0, num_threads} :
            SetThreadCount(n) =>
                /\ ret' = Returned("set_thread_count", n # 0)
                /\ MinerUntouched ]_vars
\* a count of 0 was refused while a worker of the session hashes
C36_Witness ==
    /\ ret = Returned("set_thread_count", FALSE) /\ ctl = Idle
    /\ mining /\ \E w \in Workers : pc[w] = "hash"

\* the session was ended by a new block on the network
EndedByNewBlock == main.changed /\ main.pc \in {"after", "after_stop"}

SubmitStep == main.pc = "submit" /\ main'.running = main.running /\ main' # main
\* miner.start_mining is called
SessionCalled == ctl'.op = "start_mining" /\ ctl.op # "start_mining"

\* C38: submitblock is called at most once in a session and only with the
\* solution get_solution returned for a session whose found_ is true;
\* blocks_mined grows only in that call and by one, so it never exceeds the
\* number of sessions with a find.
C38_SubmitOnce ==
    [][ /\ SubmitStep =>
              /\ ~main.submitted /\ main'.submitted
              /\ found /\ ret.op = "get_solution" /\ ret.ok
        /\ (main'.mined # main.mined) =>
              \/ SubmitStep /\ main'.mined = main.mined + 1
              \/ SessionCalled /\ main'.mined = 0
        /\ (main.submitted /\ ~main'.submitted) => SessionCalled
        /\ main'.mined <= (IF main'.submitted THEN 1 ELSE 0)
      ]_vars
\* the submission of a session was rejected and the loop is reconnecting
C38_Witness ==
    /\ main.submitted /\ main.mined = 0
    /\ main.pc = "fetch" /\ main.disconnected /\ found

\* VM handles the miner can still reach through its tables
Reachable ==
    (UNION {RangeOf(numa_nodes[k].vms) : k \in Nodes} \cup RangeOf(legacy_vms))
        \ {NoVm}

\* C39: every VM handle that was created and not yet destroyed is still in
\* one of the miner's tables, so that a later cleanup releases it; none is
\* lost by a new handle being stored over it.
C39_HandlesReleasedOnce ==
    \A h \in Handles : vm_heap[h] # "free" => h \in Reachable
====
